---- MODULE Spec2Model ----
(***************************************************************************)
(* thriftybackup: the change tree (thriftybackup/filesystem.py), the scout *)
(* parser and the decision step of a backup run (thriftybackup/backup.py), *)
(* the retrying rclone runner (RcloneMixin.rclone), the scheduling of the  *)
(* configured backups (BackupConfig.backup, main_loop) and a whole run of  *)
(* a BackupTask with the commands it issues (BackupTask.perform).          *)
(*                                                                         *)
(* A tree is a function from paths (sequences of names, << >> the root) to *)
(* nodes.  The cached_property Directory.transfer_size is the function     *)
(* cache: a directory is in its domain once its value was computed.        *)
(***************************************************************************)
EXTENDS Integers, Sequences, FiniteSets, Bags, TLC

VARIABLES tree, cache, last, touched,
          task_pc, task_err, nlines, threshold, backup_size, large, exclude,
          announced, files,
          rcl_pc, rcl_cmd, rcl_dry, rcl_calls, rcl_sleeps, rcl_stderr, rcl_idx,
          rcl_failures, rcl_result,
          sch_interval, sch_pc, sch_idx, sch_ran, sch_call,
          mounted, cmds, last_log, scout_rc, sync_rc, sync_tree, transferred,
          items, nsync, abort,
          exclude_queue, posted, nposts, put_err,
          scout_lines, scout_idx,
          config_name, dry_run, last_snapshot, dest, dest_pc, timestamp, task_last_log,
          dest_cmds, reported, finalized, returned

treeVars == <<tree, cache, last, touched>>
taskVars == <<task_pc, task_err, nlines, threshold, backup_size, large,
              exclude, announced, files>>
rclVars == <<rcl_pc, rcl_cmd, rcl_dry, rcl_calls, rcl_sleeps, rcl_stderr,
             rcl_idx, rcl_failures, rcl_result>>
schVars == <<sch_interval, sch_pc, sch_idx, sch_ran, sch_call>>
runState == <<mounted, cmds, last_log, scout_rc, sync_rc, sync_tree,
              transferred, items, nsync>>
runVars == <<runState, abort>>
gateVars == <<exclude_queue, posted, nposts, put_err>>
logVars == <<scout_lines, scout_idx>>
destVars == <<config_name, dry_run, last_snapshot, dest, dest_pc, timestamp, task_last_log,
              dest_cmds, reported, finalized, returned>>
vars == <<treeVars, taskVars, rclVars, schVars, runVars, gateVars, logVars,
          destVars>>

(***************************************************************************)
(* Bounds of the model.                                                    *)
(***************************************************************************)
MaxSize == 3
MaxThreshold == 2
MaxLines == 3
MaxExclude == 1
MaxInvocations == 3
MaxStderrLines == 2
MaxBackups == 2
MaxInterval == 2
MaxAge == 3
MaxSyncLines == 2
MaxPosts == 2
MaxSnapshots == 3
MaxItems == 1

(***************************************************************************)
(* Entries (filesystem.py).                                                *)
(***************************************************************************)
ROOT == << >>
\* the paths the inserts and the log records of the model speak of
Paths == { <<"a">>, <<"b">>, <<"b", "c">>, <<"b", "d.rclonelink">> }
LinkNames == { "d.rclonelink" }
NoAction == "unset"
NoSize == -1
NoPath == <<"">>
CopySizes == 1..MaxSize

IsLinkName(name) == name \in LinkNames

NewEntry(kind, size, action, source) ==
    [kind |-> kind, size |-> size, action |-> action,
     source |-> source, destination |-> NoPath]

NewDirectory == NewEntry("Directory", NoSize, NoAction, NoPath)

EmptyTree == [p \in {ROOT} |-> NewDirectory]

IsDir(t, p) == t[p].kind = "Directory"

Prefix(p, i) == SubSeq(p, 1, i)

IsPrefix(p, q) == Len(p) <= Len(q) /\ Prefix(q, Len(p)) = p

IsProperPrefix(p, q) == Len(p) < Len(q) /\ Prefix(q, Len(p)) = p

Children(t, p) == { q \in DOMAIN t : Len(q) = Len(p) + 1 /\ IsPrefix(p, q) }

Dirs(t) == { p \in DOMAIN t : IsDir(t, p) }

Leaves(t) == { p \in DOMAIN t : ~IsDir(t, p) }

FileTransferSize(n) == IF n.action = "copy" THEN n.size ELSE 0

RECURSIVE TransferSize(_, _, _)
RECURSIVE SumTransferSize(_, _, _)
SumTransferSize(t, c, S) ==
    IF S = {} THEN 0
    ELSE LET p == CHOOSE q \in S : TRUE
         IN TransferSize(t, c, p) + SumTransferSize(t, c, S \ {p})

\* faulty variant of DirTransferSize: the subdirectories are left out
DirTransferSizeNoSubdirs(t, c, p) ==
    SumTransferSize(t, c, { q \in Children(t, p) : ~IsDir(t, q) })

DirTransferSize(t, c, p) == SumTransferSize(t, c, Children(t, p))

TransferSize(t, c, p) ==
    IF ~IsDir(t, p) THEN FileTransferSize(t[p])
    ELSE IF p \in DOMAIN c THEN c[p]
    ELSE DirTransferSize(t, c, p)

\* the directories whose transfer_size is computed (and cached) by a read of p's
RECURSIVE Computed(_, _, _)
Computed(t, c, p) ==
    IF ~IsDir(t, p) \/ p \in DOMAIN c THEN {}
    ELSE {p} \cup UNION { Computed(t, c, q) : q \in Children(t, p) }

CacheAfterRead(t, c, p) ==
    LET new == Computed(t, c, p)
    IN [d \in DOMAIN c \cup new |->
            IF d \in DOMAIN c THEN c[d] ELSE DirTransferSize(t, c, d)]

\* faulty variant of AddFile: an entry that is there is replaced
AddFileOverwrites(t, path, size, action, source) ==
    LET kind == IF IsLinkName(path[Len(path)]) THEN "Link" ELSE "File"
        above == { Prefix(path, i) : i \in 1..(Len(path) - 1) }
    IN [tree |-> [p \in DOMAIN t \cup above \cup {path} |->
                     IF p = path THEN NewEntry(kind, size, action, source)
                     ELSE IF p \in DOMAIN t THEN t[p] ELSE NewDirectory],
        err |-> "ok"]

\* Directory.add_file / _add_file: the tree after the call and how it ended
AddFile(t, path, size, action, source) ==
    LET kind == IF IsLinkName(path[Len(path)]) THEN "Link" ELSE "File"
        above == { Prefix(path, i) : i \in 1..(Len(path) - 1) }
    IN IF \E p \in above : p \in DOMAIN t /\ ~IsDir(t, p)
       THEN [tree |-> t, err |-> "AttributeError"]
       ELSE IF path \in DOMAIN t
       THEN IF t[path].action # NoAction
            THEN [tree |-> t, err |-> "RuntimeError"]
            ELSE [tree |-> [t EXCEPT ![path].action = action], err |-> "ok"]
       ELSE [tree |-> [p \in DOMAIN t \cup above \cup {path} |->
                          IF p = path THEN NewEntry(kind, size, action, source)
                          ELSE IF p \in DOMAIN t THEN t[p] ELSE NewDirectory],
             err |-> "ok"]

\* Directory.get / _get
Get(t, path) ==
    IF \E i \in 1..(Len(path) - 1) :
           Prefix(path, i) \in DOMAIN t /\ ~IsDir(t, Prefix(path, i))
    THEN "AttributeError"
    ELSE IF path \notin DOMAIN t THEN "KeyError" ELSE "ok"

\* faulty variant of LargeEntries: a large directory is yielded with its
\* large children
RECURSIVE LargeEntriesOverlapping(_, _, _, _)
LargeEntriesOverlapping(t, c, p, th) ==
    LET own == IF TransferSize(t, c, p) > th THEN {p} ELSE {}
    IN IF ~IsDir(t, p) THEN own
       ELSE own \cup UNION { LargeEntriesOverlapping(t, c, q, th) :
                               q \in Children(t, p) }

\* faulty variant of LargeEntries: `>=` for `>`
RECURSIVE LargeEntriesAtLeast(_, _, _, _)
LargeEntriesAtLeast(t, c, p, th) ==
    LET own == IF TransferSize(t, c, p) >= th THEN {p} ELSE {}
    IN IF ~IsDir(t, p) THEN own
       ELSE LET large_children ==
                    UNION { LargeEntriesAtLeast(t, c, q, th) : q \in Children(t, p) }
            IN IF large_children # {} THEN large_children ELSE own

\* Entry.large_entries / Directory.large_entries: the entries yielded
RECURSIVE LargeEntries(_, _, _, _)
LargeEntries(t, c, p, th) ==
    LET own == IF TransferSize(t, c, p) > th THEN {p} ELSE {}
    IN IF ~IsDir(t, p) THEN own
       ELSE LET large_children ==
                    UNION { LargeEntries(t, c, q, th) : q \in Children(t, p) }
            IN IF large_children # {} THEN large_children ELSE own

\* faulty variant of IterFiles: an excluded directory is still descended
RECURSIVE IterFilesIgnoringDirs(_, _, _)
IterFilesIgnoringDirs(t, p, ex) ==
    IF ~IsDir(t, p) THEN (IF p \in ex THEN {} ELSE {p})
    ELSE (IF t[p].action # NoAction /\ p \notin ex THEN {p} ELSE {})
         \cup UNION { IterFilesIgnoringDirs(t, q, ex) : q \in Children(t, p) }

\* File.iter_files / Directory.iter_files: the entries yielded
RECURSIVE IterFiles(_, _, _)
IterFiles(t, p, ex) ==
    IF p \in ex THEN {}
    ELSE IF ~IsDir(t, p) THEN {p}
    ELSE (IF t[p].action # NoAction THEN {p} ELSE {})
         \cup UNION { IterFiles(t, q, ex) : q \in Children(t, p) }

RECURSIVE SumBags(_, _)
SumBags(f, S) ==
    IF S = {} THEN EmptyBag
    ELSE LET x == CHOOSE y \in S : TRUE
         IN f[x] (+) SumBags(f, S \ {x})

\* faulty variant of IterFilesBag: a directory that has entries is yielded
\* whether or not it has an action
RECURSIVE IterFilesBagWithParents(_, _, _)
IterFilesBagWithParents(t, p, ex) ==
    IF p \in ex THEN EmptyBag
    ELSE IF ~IsDir(t, p) THEN SetToBag({p})
    ELSE (IF t[p].action # NoAction \/ Children(t, p) # {}
          THEN SetToBag({p}) ELSE EmptyBag)
         (+) SumBags([q \in Children(t, p) |-> IterFilesBagWithParents(t, q, ex)],
                     Children(t, p))

\* File.iter_files / Directory.iter_files: every entry as often as it is
\* yielded
RECURSIVE IterFilesBag(_, _, _)
IterFilesBag(t, p, ex) ==
    IF p \in ex THEN EmptyBag
    ELSE IF ~IsDir(t, p) THEN SetToBag({p})
    ELSE (IF t[p].action # NoAction THEN SetToBag({p}) ELSE EmptyBag)
         (+) SumBags([q \in Children(t, p) |-> IterFilesBag(t, q, ex)],
                     Children(t, p))

(***************************************************************************)
(* Initial values of the three groups of variables.                        *)
(***************************************************************************)
EmptyCache == [d \in {} |-> 0]

Call(op, path, err) == [op |-> op, path |-> path, err |-> err]

InitTree ==
    /\ tree = EmptyTree
    /\ cache = EmptyCache
    /\ last = Call("Root", ROOT, "ok")
    /\ touched = {}

NoDecision == [skip |-> FALSE, entries |-> {}]

InitTask ==
    /\ task_pc = "created"
    /\ task_err = "none"
    /\ nlines = 0
    /\ backup_size = 0
    /\ large = {}
    /\ exclude = NoDecision
    /\ announced = << >>
    /\ files = {}

InitRclone ==
    /\ rcl_pc = "idle"
    /\ rcl_cmd = "none"
    /\ rcl_dry = FALSE
    /\ rcl_calls = << >>
    /\ rcl_sleeps = 0
    /\ rcl_stderr = << >>
    /\ rcl_idx = 0
    /\ rcl_failures = << >>
    /\ rcl_result = "none"

\* the configured backups, in the order of the configuration
Backups == 1..MaxBackups

\* interval = None (no interval in the configuration)
NoInterval == 0

Intervals == NoInterval..MaxInterval

\* no call of backup() yet
NoCall == [backup |-> 0]

\* main_loop before its first pass
InitSchedule ==
    /\ sch_pc = "sleep"
    /\ sch_idx = 0
    /\ sch_ran = 0
    /\ sch_call = NoCall

\* BackupTask.__init__: the snapshot is mounted, nothing else was run yet
InitRun ==
    /\ mounted = TRUE
    /\ cmds = <<"mount">>
    /\ scout_rc = 0
    /\ sync_rc = 0
    /\ sync_tree = EmptyTree
    /\ transferred = 0
    /\ items = << >>
    /\ nsync = 0
    /\ abort = FALSE

\* no response in the queue
NoResponse == [skip |-> FALSE, entries |-> {<<"none">>}]

\* BackupTask.__init__: exclude_queue = Queue(maxsize=1)
InitGate ==
    /\ exclude_queue = << >>
    /\ posted = NoResponse
    /\ nposts = 0
    /\ put_err = FALSE

\* no scout log is being read line by line
InitLog ==
    /\ scout_lines = << >>
    /\ scout_idx = 1

\* no snapshot, no task and nothing at the destination
NotReported == -1

InitDest ==
    /\ config_name = <<"home">>
    /\ dry_run = FALSE
    /\ last_snapshot = 0
    /\ dest = {}
    /\ dest_pc = "idle"
    /\ timestamp = 0
    /\ task_last_log = 0
    /\ dest_cmds = << >>
    /\ reported = NotReported
    /\ finalized = {}
    /\ returned = "none"

InitAll ==
    /\ InitTree /\ InitTask /\ InitRclone /\ InitSchedule /\ InitRun /\ InitGate
    /\ InitLog /\ InitDest

NoBackups == [b \in Backups |-> NoInterval]

(***************************************************************************)
(* The change tree under arbitrary calls of its interface: add_file and    *)
(* reads of transfer_size, in any order (SpecTree).                        *)
(***************************************************************************)
InsertActions == {"copy", "delete"}

SizesOf(action) == IF action = "copy" THEN CopySizes ELSE {1}

\* the cached directories above (or at) an insert that took place
Stale(c, path, err) ==
    IF err = "ok" THEN { d \in DOMAIN c : IsPrefix(d, path) } ELSE {}

TreeAddFile ==
    \E path \in Paths, action \in InsertActions :
    \E size \in SizesOf(action) :
        LET r == AddFile(tree, path, size, action, NoPath)
        IN /\ tree' = r.tree
           /\ last' = Call("add_file", path, r.err)
           /\ touched' = touched \cup Stale(cache, path, r.err)
           /\ UNCHANGED cache

TreeTransferSize ==
    \E d \in Dirs(tree) :
        /\ cache' = CacheAfterRead(tree, cache, d)
        /\ last' = Call("transfer_size", d, "ok")
        /\ UNCHANGED <<tree, touched>>

NextTree ==
    \/ TreeAddFile /\ UNCHANGED <<taskVars, rclVars, schVars, runVars, gateVars, logVars,
           destVars>>
    \/ TreeTransferSize /\ UNCHANGED <<taskVars, rclVars, schVars, runVars, gateVars, logVars,
           destVars>>

InitOfTree ==
    InitAll /\ threshold = 0 /\ sch_interval = NoBackups /\ last_log = FALSE

SpecTree == InitOfTree /\ [][NextTree]_vars

(***************************************************************************)
(* One run of a BackupTask (Spec): perform() up to the file list of        *)
(* backup_sync.  The scout log is read line by line into the tree          *)
(* (scout_log_to_tree), get_user_feedback computes the size and the large  *)
(* entries and waits for the decision when there are any.                  *)
(***************************************************************************)
SkipActions == {"copy", "delete", "move"}

Notify(ev, arg) == Append(announced, [ev |-> ev, arg |-> arg])

\* an exception leaves perform() through its finally clause: cleanup, idle
TaskRaises(err) ==
    /\ task_pc' = "failed"
    /\ task_err' = err
    /\ announced' = Notify("idle", 0)
    /\ UNCHANGED <<threshold, backup_size, large, exclude, files>>

TaskKeeps ==
    UNCHANGED <<task_pc, task_err, threshold, backup_size, large, exclude, announced,
                files>>

\* perform(): the destination is made and the app told, then the scout starts
Perform ==
    /\ task_pc = "created"
    /\ task_pc' = "scout"
    /\ announced' = Notify("prepare", 0)
    /\ UNCHANGED <<treeVars, task_err, nlines, threshold, backup_size, large,
                   exclude, files>>

\* a line that is no JSON, or a record with neither "skipped" nor a rename
ScoutIgnoredLine ==
    /\ task_pc = "scout"
    /\ nlines < MaxLines
    /\ nlines' = nlines + 1
    /\ TaskKeeps
    /\ UNCHANGED treeVars

\* {"skipped": action, "object": path, "size": size}
ScoutSkippedRecord(path, size, action) ==
    /\ task_pc = "scout"
    /\ nlines < MaxLines
    /\ nlines' = nlines + 1
    /\ LET r == AddFile(tree, path, size, action, NoPath)
       IN /\ tree' = r.tree
          /\ IF r.err = "ok" THEN TaskKeeps ELSE TaskRaises(r.err)
    /\ UNCHANGED <<cache, last, touched>>

ScoutSkipped ==
    \E path \in Paths, action \in SkipActions :
    \E size \in SizesOf(action) : ScoutSkippedRecord(path, size, action)

\* faulty variant of Renamed: the entry at the old path is looked up but not
\* annotated
RenamedNotAnnotated(t, new, old) ==
    LET r == AddFile(t, new, 0, "move-dest", old)
    IN IF r.err # "ok" THEN r
       ELSE [tree |-> r.tree, err |-> Get(r.tree, old)]

\* the tree of a rename record: move-dest at the new path, then the entry at
\* the old path gets the destination
Renamed(t, new, old) ==
    LET r == AddFile(t, new, 0, "move-dest", old)
    IN IF r.err # "ok" THEN r
       ELSE IF Get(r.tree, old) # "ok"
       THEN [tree |-> r.tree, err |-> Get(r.tree, old)]
       ELSE [tree |-> [r.tree EXCEPT ![old].destination = new], err |-> "ok"]

\* {"msg": "Renamed from \"old\"", "object": new}
ScoutRenamedRecord(new, old) ==
    /\ task_pc = "scout"
    /\ nlines < MaxLines
    /\ nlines' = nlines + 1
    /\ LET r == Renamed(tree, new, old)
       IN /\ tree' = r.tree
          /\ IF r.err = "ok" THEN TaskKeeps ELSE TaskRaises(r.err)
    /\ UNCHANGED <<cache, last, touched>>

ScoutRenamed == \E new \in Paths, old \in Paths : ScoutRenamedRecord(new, old)

\* File.to_ncdu needs the destination of every moved file
ExportRaises(t) ==
    \E p \in DOMAIN t :
        t[p].kind = "File" /\ t[p].action = "move" /\ t[p].destination = NoPath

\* the end of the log, or {"skipped": "remove directory"}: the tree is
\* complete and exported (write_ncdu_export)
ScoutEnd ==
    /\ task_pc = "scout"
    /\ IF ExportRaises(tree)
       THEN TaskRaises("KeyError")
       ELSE /\ task_pc' = "scouted"
            /\ UNCHANGED <<task_err, threshold, backup_size, large, exclude,
                           announced, files>>
    /\ UNCHANGED <<treeVars, nlines>>

\* faulty variant of GetUserFeedback: the decision is requested whether or
\* not there are large entries
GetUserFeedbackAlwaysAsks ==
    /\ task_pc = "scouted"
    /\ cache' = CacheAfterRead(tree, cache, ROOT)
    /\ backup_size' = TransferSize(tree, cache', ROOT)
    /\ large' = LargeEntries(tree, cache', ROOT, threshold)
    /\ announced' = Notify("threshold_exceeded", backup_size')
    /\ task_pc' = "awaiting"
    /\ exclude' = NoDecision
    /\ UNCHANGED <<tree, last, touched, task_err, nlines, threshold, files>>

\* get_user_feedback up to the wait for the decision
GetUserFeedback ==
    /\ task_pc = "scouted"
    /\ cache' = CacheAfterRead(tree, cache, ROOT)
    /\ backup_size' = TransferSize(tree, cache', ROOT)
    /\ large' = LargeEntries(tree, cache', ROOT, threshold)
    /\ IF large' # {}
       THEN /\ announced' = Notify("threshold_exceeded", backup_size')
            /\ task_pc' = "awaiting"
       ELSE /\ announced' = announced
            /\ task_pc' = "decided"
    /\ exclude' = NoDecision
    /\ UNCHANGED <<tree, last, touched, task_err, nlines, threshold, files>>

\* faulty variant of SizeAfterExclusion: the sizes of the excluded files are
\* subtracted whatever their action
RECURSIVE SumSize(_, _)
SumSize(t, S) ==
    IF S = {} THEN 0
    ELSE LET p == CHOOSE q \in S : TRUE
         IN (IF IsDir(t, p) THEN 0 ELSE t[p].size) + SumSize(t, S \ {p})

SizeAfterExclusionBySize(t, c, size, ex) == size - SumSize(t, ex)

\* backup_size -= sum(entry.transfer_size for entry in exclude)
SizeAfterExclusion(t, c, size, ex) == size - SumTransferSize(t, c, ex)

\* continue_backup(excluded): the decision arrives with the entries to leave out
ContinueBackup ==
    /\ task_pc = "awaiting"
    /\ \E ex \in SUBSET (DOMAIN tree) :
           /\ Cardinality(ex) <= MaxExclude
           /\ exclude' = [skip |-> FALSE, entries |-> ex]
           /\ backup_size' = SizeAfterExclusion(tree, cache, backup_size, ex)
    /\ task_pc' = "decided"
    /\ UNCHANGED <<treeVars, task_err, nlines, threshold, large, announced,
                   files>>

\* skip_backup(): the decision is None
SkipBackup ==
    /\ task_pc = "awaiting"
    /\ exclude' = [skip |-> TRUE, entries |-> {}]
    /\ backup_size' = 0
    /\ task_pc' = "decided"
    /\ UNCHANGED <<treeVars, task_err, nlines, threshold, large, announced,
                   files>>

\* faulty variant of StartBackup: the size of the whole tree is announced
StartBackupAnnouncesAll ==
    /\ task_pc = "decided"
    /\ IF backup_size # 0
       THEN /\ announced' = Notify("start_backup", TransferSize(tree, cache, ROOT))
            /\ files' = IterFiles(tree, ROOT, exclude.entries)
            /\ task_pc' = "sync"
       ELSE /\ announced' = Notify("idle", 0)
            /\ files' = files
            /\ task_pc' = "idle"
    /\ UNCHANGED <<treeVars, task_err, nlines, threshold, backup_size, large,
                   exclude>>

\* perform(): a backup of size 0 ends the run, any other is announced and
\* backup_sync writes the list of the files to sync
StartBackup ==
    /\ task_pc = "decided"
    /\ IF backup_size # 0
       THEN /\ announced' = Notify("start_backup", backup_size)
            /\ files' = IterFiles(tree, ROOT, exclude.entries)
            /\ task_pc' = "sync"
       ELSE /\ announced' = Notify("idle", 0)
            /\ files' = files
            /\ task_pc' = "idle"
    /\ UNCHANGED <<treeVars, task_err, nlines, threshold, backup_size, large,
                   exclude>>

Next ==
    \/ Perform /\ UNCHANGED <<rclVars, schVars, runVars, gateVars, logVars,
           destVars>>
    \/ ScoutIgnoredLine /\ UNCHANGED <<rclVars, schVars, runVars, gateVars, logVars,
           destVars>>
    \/ ScoutSkipped /\ UNCHANGED <<rclVars, schVars, runVars, gateVars, logVars,
           destVars>>
    \/ ScoutRenamed /\ UNCHANGED <<rclVars, schVars, runVars, gateVars, logVars,
           destVars>>
    \/ ScoutEnd /\ UNCHANGED <<rclVars, schVars, runVars, gateVars, logVars,
           destVars>>
    \/ GetUserFeedback /\ UNCHANGED <<rclVars, schVars, runVars, gateVars, logVars,
           destVars>>
    \/ ContinueBackup /\ UNCHANGED <<rclVars, schVars, runVars, gateVars, logVars,
           destVars>>
    \/ SkipBackup /\ UNCHANGED <<rclVars, schVars, runVars, gateVars, logVars,
           destVars>>
    \/ StartBackup /\ UNCHANGED <<rclVars, schVars, runVars, gateVars, logVars,
           destVars>>

Init ==
    /\ InitAll /\ threshold \in 0..MaxThreshold
    /\ sch_interval = NoBackups /\ last_log = FALSE

Spec == Init /\ [][Next]_vars

(***************************************************************************)
(* RcloneMixin.rclone (SpecRclone): the command is run until it succeeds,  *)
(* and after a failure the lines of its stderr decide what happens.        *)
(***************************************************************************)
Commands == {"mkdir", "touch"}

\* a line of stderr: no JSON, or a JSON record with this message
NotJson == "not json"
Messages == {"no such host", "network is unreachable", "directory not found"}
Lines == {NotJson} \cup Messages

Streams == UNION { [1..n -> Lines] : n \in 0..MaxStderrLines }

\* "no such host" in msg or "network is unreachable" in msg
IsConnectionError(msg) == msg \in {"no such host", "network is unreachable"}

HasConnectionError(stderr) ==
    \E i \in DOMAIN stderr : IsConnectionError(stderr[i])

\* rclone(subcmd, ...): cmd is built once, before the loop
RcloneCall ==
    /\ rcl_pc = "idle"
    /\ \E cmd \in Commands, dry \in BOOLEAN :
           /\ rcl_cmd' = cmd
           /\ rcl_dry' = dry
    /\ rcl_pc' = "run"
    /\ UNCHANGED <<rcl_calls, rcl_sleeps, rcl_stderr, rcl_idx, rcl_failures,
                   rcl_result>>

\* _run with dry_run: the command is echoed, not run, and None is returned
RcloneDryRun ==
    /\ rcl_pc = "run"
    /\ rcl_dry
    /\ rcl_pc' = "returned"
    /\ rcl_result' = "None"
    /\ UNCHANGED <<rcl_cmd, rcl_dry, rcl_calls, rcl_sleeps, rcl_stderr,
                   rcl_idx, rcl_failures>>

\* the command is run and exits with status 0
RcloneSucceeds ==
    /\ rcl_pc = "run"
    /\ ~rcl_dry
    /\ Len(rcl_calls) < MaxInvocations
    /\ rcl_calls' = Append(rcl_calls, rcl_cmd)
    /\ rcl_pc' = "returned"
    /\ rcl_result' = "CompletedProcess"
    /\ UNCHANGED <<rcl_cmd, rcl_dry, rcl_sleeps, rcl_stderr, rcl_idx,
                   rcl_failures>>

\* the command is run and exits with another status: CalledProcessError
RcloneFails ==
    /\ rcl_pc = "run"
    /\ ~rcl_dry
    /\ Len(rcl_calls) < MaxInvocations
    /\ rcl_calls' = Append(rcl_calls, rcl_cmd)
    /\ \E stderr \in Streams :
           /\ rcl_stderr' = stderr
           /\ rcl_failures' = Append(rcl_failures, HasConnectionError(stderr))
    /\ rcl_idx' = 1
    /\ rcl_pc' = "except"
    /\ UNCHANGED <<rcl_cmd, rcl_dry, rcl_sleeps, rcl_result>>

\* one turn of the loop over the lines of stderr
RcloneScanLine ==
    /\ rcl_pc = "except"
    /\ rcl_idx <= Len(rcl_stderr)
    /\ LET line == rcl_stderr[rcl_idx]
       IN IF line = NotJson
          THEN /\ rcl_idx' = rcl_idx + 1
               /\ UNCHANGED <<rcl_pc, rcl_sleeps, rcl_result>>
          ELSE IF IsConnectionError(line)
          THEN /\ rcl_sleeps' = rcl_sleeps + 1
               /\ rcl_pc' = "run"
               /\ UNCHANGED <<rcl_idx, rcl_result>>
          ELSE /\ rcl_pc' = "raised"
               /\ rcl_result' = "NotImplementedError"
               /\ UNCHANGED <<rcl_idx, rcl_sleeps>>
    /\ UNCHANGED <<rcl_cmd, rcl_dry, rcl_calls, rcl_stderr, rcl_failures>>

\* the lines are used up: the except clause ends and the while loop goes on
RcloneScanEnd ==
    /\ rcl_pc = "except"
    /\ rcl_idx > Len(rcl_stderr)
    /\ rcl_pc' = "run"
    /\ UNCHANGED <<rcl_cmd, rcl_dry, rcl_calls, rcl_sleeps, rcl_stderr,
                   rcl_idx, rcl_failures, rcl_result>>

NextRclone ==
    \/ RcloneCall /\ UNCHANGED <<treeVars, taskVars, schVars, runVars, gateVars, logVars,
           destVars>>
    \/ RcloneDryRun /\ UNCHANGED <<treeVars, taskVars, schVars, runVars, gateVars, logVars,
           destVars>>
    \/ RcloneSucceeds /\ UNCHANGED <<treeVars, taskVars, schVars, runVars, gateVars, logVars,
           destVars>>
    \/ RcloneFails /\ UNCHANGED <<treeVars, taskVars, schVars, runVars, gateVars, logVars,
           destVars>>
    \/ RcloneScanLine /\ UNCHANGED <<treeVars, taskVars, schVars, runVars, gateVars, logVars,
           destVars>>
    \/ RcloneScanEnd /\ UNCHANGED <<treeVars, taskVars, schVars, runVars, gateVars, logVars,
           destVars>>

InitOfRclone ==
    InitAll /\ threshold = 0 /\ sch_interval = NoBackups /\ last_log = FALSE

SpecRclone == InitOfRclone /\ [][NextRclone]_vars

(***************************************************************************)
(* C1 (as claimed): after any sequence of add_file calls and transfer_size *)
(* reads, every directory's transfer_size equals the sum of the            *)
(* transfer_size of its current children.                                  *)
(***************************************************************************)
C1_SumOfChildrenAlways ==
    \A d \in Dirs(tree) :
        TransferSize(tree, cache, d)
            = SumTransferSize(tree, cache, Children(tree, d))

(***************************************************************************)
(* C1 (amended): every directory below which no add_file took place after  *)
(* its transfer_size was first read has a transfer_size equal to the sum   *)
(* of the transfer_size of its current children.                           *)
(***************************************************************************)
C1_SumOfChildrenUnlessInsertedAfterRead ==
    \A d \in Dirs(tree) \ touched :
        TransferSize(tree, cache, d)
            = SumTransferSize(tree, cache, Children(tree, d))

\* a cached directory with a subdirectory and bytes to copy, not inserted
\* into since
C1_Witness ==
    \E d \in DOMAIN cache \ touched :
        /\ cache[d] >= 2
        /\ \E q \in Children(tree, d) : IsDir(tree, q) /\ q \in DOMAIN cache
        /\ touched # {}

(***************************************************************************)
(* C7: add_file at a path whose terminal node already carries an action    *)
(* raises (RuntimeError, the DuplicateInsertion of the design) and leaves  *)
(* the tree as it was.                                                     *)
(***************************************************************************)
C7_DuplicateInsertionRaises ==
    [][(/\ last'.op = "add_file"
        /\ last'.path \in DOMAIN tree
        /\ tree[last'.path].action # NoAction)
       => (last'.err = "RuntimeError" /\ tree' = tree /\ cache' = cache)]_vars

\* a duplicate insertion was refused in a tree with several entries
C7_Witness ==
    /\ last.op = "add_file"
    /\ last.err = "RuntimeError"
    /\ tree[last.path].action # NoAction
    /\ Cardinality(DOMAIN tree) > 3

(***************************************************************************)
(* C2: large_entries never yields two entries of which one is an ancestor  *)
(* of the other.                                                           *)
(***************************************************************************)
FeedbackDone == task_pc \in {"awaiting", "decided", "sync", "idle"}

C2_LargeEntriesDoNotOverlap ==
    FeedbackDone =>
        \A p \in large, q \in large : ~IsProperPrefix(p, q)

\* a directory below the root is yielded as one unit beside another entry
C2_Witness ==
    /\ FeedbackDone
    /\ Cardinality(large) >= 2
    /\ \E p \in large : IsDir(tree, p) /\ Cardinality(Children(tree, p)) >= 2

(***************************************************************************)
(* C3: the transfer sizes of the yielded entries plus those of the leaves  *)
(* that are neither yielded nor under a yielded entry add up to the root's *)
(* transfer_size.                                                          *)
(***************************************************************************)
Covered(p) == \E e \in large : IsPrefix(e, p)

C3_LargeEntriesAndRestSumToTotal ==
    FeedbackDone =>
        SumTransferSize(tree, cache, large)
          + SumTransferSize(tree, cache, { p \in Leaves(tree) : ~Covered(p) })
            = TransferSize(tree, cache, ROOT)

\* a directory is yielded and a leaf with bytes to copy is left outside
C3_Witness ==
    /\ FeedbackDone
    /\ \E p \in large : IsDir(tree, p) /\ p # ROOT
    /\ \E p \in Leaves(tree) : ~Covered(p) /\ FileTransferSize(tree[p]) > 0

(***************************************************************************)
(* C4: after the decision to continue with the exclusion set E, the backup *)
(* size carried forward, and announced by start_backup, is the tree's      *)
(* transfer_size minus the sum of the transfer sizes of the entries of E.  *)
(***************************************************************************)
Decided == task_pc \in {"decided", "sync", "idle"} /\ ~exclude.skip

SizeLessExcluded ==
    TransferSize(tree, cache, ROOT)
        - SumTransferSize(tree, cache, exclude.entries)

C4_ExclusionReducesSizeBySum ==
    Decided =>
        /\ backup_size = SizeLessExcluded
        /\ \A i \in DOMAIN announced :
               announced[i].ev = "start_backup"
                   => announced[i].arg = SizeLessExcluded

\* the operator excluded a large entry and something is left to back up
C4_Witness ==
    /\ task_pc = "sync"
    /\ exclude.entries # {}
    /\ exclude.entries \subseteq large
    /\ SumTransferSize(tree, cache, exclude.entries) > 0
    /\ announced[Len(announced)] = [ev |-> "start_backup", arg |-> backup_size]

(***************************************************************************)
(* C5: iter_files yields no entry that is excluded or lies under an        *)
(* excluded entry.                                                         *)
(***************************************************************************)
C5_NoExcludedFileIsSynced ==
    task_pc = "sync" =>
        \A f \in files : \A e \in exclude.entries : ~IsPrefix(e, f)

\* a directory with children is excluded and other files are synced
C5_Witness ==
    /\ task_pc = "sync"
    /\ \E e \in exclude.entries : IsDir(tree, e) /\ Children(tree, e) # {}
    /\ files # {}

(***************************************************************************)
(* C6 (as claimed): every rename record adds exactly one node with action  *)
(* move-dest at the new path (size 0, the old path in its metadata),       *)
(* annotates exactly the node at the old path with the new path, and       *)
(* leaves the root's transfer_size as it is without the record.            *)
(***************************************************************************)
RenameEffect(new, old) ==
    /\ task_pc' = "scout"
    \* exactly one node is added with action move-dest: the one at new
    /\ { p \in DOMAIN tree' \ DOMAIN tree : tree'[p].action = "move-dest" }
           = {new}
    /\ ~IsDir(tree', new)
    /\ tree'[new].size = 0
    /\ tree'[new].source = old
    \* whatever else is added is a directory above it, without an action
    /\ \A p \in DOMAIN tree' \ (DOMAIN tree \cup {new}) :
           /\ IsProperPrefix(p, new)
           /\ IsDir(tree', p)
           /\ tree'[p].action = NoAction
    \* exactly one node gets the destination new: the one at old
    /\ { p \in DOMAIN tree' :
           /\ tree'[p].destination = new
           /\ (p \in DOMAIN tree => tree[p].destination # new) } = {old}
    /\ \A p \in DOMAIN tree :
           tree'[p] = IF p = old THEN [tree[p] EXCEPT !.destination = new]
                      ELSE tree[p]
    /\ TransferSize(tree', cache', ROOT) = TransferSize(tree, cache, ROOT)

C6_EveryRenameAddsOneAndAnnotatesOne ==
    [][\A new \in Paths, old \in Paths :
           ScoutRenamedRecord(new, old) => RenameEffect(new, old)]_vars

(***************************************************************************)
(* C6 (amended): a rename record whose new path can be inserted as a new   *)
(* node (it is not in the tree and none of its ancestors is a file) and    *)
(* whose old path is in the tree adds exactly one node with action         *)
(* move-dest at the new path (size 0, the old path in its metadata),       *)
(* annotates exactly the node at the old path with the new path, and       *)
(* leaves the root's transfer_size unchanged.                              *)
(***************************************************************************)
RenameWellFormed(new, old) ==
    /\ new \notin DOMAIN tree
    /\ \A p \in DOMAIN tree : IsProperPrefix(p, new) => IsDir(tree, p)
    /\ old \in DOMAIN tree

C6_WellFormedRenameAddsOneAndAnnotatesOne ==
    [][\A new \in Paths, old \in Paths :
           (RenameWellFormed(new, old) /\ ScoutRenamedRecord(new, old))
               => RenameEffect(new, old)]_vars

\* a file with bytes to copy and a renamed file with its move-dest partner
C6_Witness ==
    /\ task_pc = "scout"
    /\ TransferSize(tree, cache, ROOT) > 0
    /\ \E new \in DOMAIN tree, old \in DOMAIN tree :
           /\ tree[new].action = "move-dest"
           /\ tree[new].source = old
           /\ tree[old].action = "move"
           /\ tree[old].destination = new

(***************************************************************************)
(* C8 (as claimed): when the command fails with a connection error N       *)
(* times in a row and then succeeds, it is run N+1 times with the same     *)
(* arguments, one wait separates each failure from the next run, the       *)
(* caller gets the result of the successful run and none of the failures   *)
(* is raised.                                                              *)
(***************************************************************************)
AllConnectionErrors == \A i \in DOMAIN rcl_failures : rcl_failures[i]

C8_ConnectionErrorsAreRetried ==
    /\ (rcl_pc = "raised" /\ rcl_failures # << >>)
           => ~rcl_failures[Len(rcl_failures)]
    /\ (rcl_pc = "returned" /\ ~rcl_dry /\ AllConnectionErrors)
           => /\ Len(rcl_calls) = Len(rcl_failures) + 1
              /\ \A i \in DOMAIN rcl_calls : rcl_calls[i] = rcl_cmd
              /\ rcl_sleeps = Len(rcl_failures)
              /\ rcl_result = "CompletedProcess"

(***************************************************************************)
(* C9 (as claimed): after a failure, the command is run again (after the   *)
(* wait) whenever any line of stderr carries a connection error, whatever  *)
(* lines precede it.                                                       *)
(***************************************************************************)
C9_AnyConnectionErrorLineRetries ==
    [][(/\ rcl_pc = "except"
        /\ HasConnectionError(rcl_stderr)
        /\ rcl_pc' # "except")
       => (rcl_pc' = "run" /\ rcl_sleeps' = rcl_sleeps + 1)]_vars

(***************************************************************************)
(* C10 (as claimed): after a failure whose stderr has no line with a       *)
(* connection error (an empty stderr and one without JSON included), the   *)
(* command is not run again and an error is raised.                        *)
(***************************************************************************)
C10_OtherFailuresAreRaised ==
    [][(/\ rcl_pc = "except"
        /\ ~HasConnectionError(rcl_stderr)
        /\ rcl_pc' # "except")
       => (rcl_pc' = "raised" /\ rcl_calls' = rcl_calls)]_vars

(***************************************************************************)
(* Scheduling (SpecSchedule): BackupConfig.backup decides whether a        *)
(* configured backup runs, main_loop tries the configured backups in       *)
(* order every tick.  What backup() finds (the volume, the sync logs at    *)
(* the destination, the age of the last log, a Time Machine backup in      *)
(* progress, the outcome of perform()) is an input of the call.            *)
(***************************************************************************)
LogCounts == 0..2
Ages == 0..MaxAge
Outcomes == {"ok", "raised"}

\* faulty variant of ManualOnly: `and` for `or`
ManualOnlyUnlessForcedOnly(interval, force) == interval = NoInterval /\ force

\* not (self.interval or force): the backup is started by hand only
ManualOnly(interval, force) == ~(interval # NoInterval \/ force)

\* faulty variant of AlreadyBackedUp: `<` for `==`
AlreadyBackedUpNever(age) == age < 0

\* last_age == timedelta(0)
AlreadyBackedUp(age) == age = 0

\* faulty variant of TooRecent: `<=` for `<`
TooRecentOrEqual(interval, force, age) == ~force /\ age <= interval

\* not force and last_age < self.interval
TooRecent(interval, force, age) == ~force /\ age < interval

\* the record of a call of backup(): what it found, did and returned
Returned(b, force, in, result, snapshot, remote, notes, task) ==
    [backup |-> b, force |-> force, mounted |-> in.mounted, logs |-> in.logs,
     age |-> in.age, busy |-> in.busy, result |-> result,
     snapshot |-> snapshot, remote |-> remote, notes |-> notes, task |-> task]

\* faulty variant of Backup: VolumeNotMounted and
\* TimeMachineBackupInProgress are not caught
BackupNotCatching(b, interval, force, in) ==
    IF ManualOnly(interval, force)
    THEN Returned(b, force, in, "False", FALSE, FALSE, {}, FALSE)
    ELSE IF ~in.mounted
    THEN Returned(b, force, in, "raised", TRUE, FALSE, {}, FALSE)
    ELSE IF in.logs > 1
    THEN Returned(b, force, in, "SystemExit", TRUE, TRUE, {}, FALSE)
    ELSE IF in.logs = 1 /\ AlreadyBackedUp(in.age)
    THEN Returned(b, force, in, "False", TRUE, TRUE,
                  IF force THEN {"already_backed_up"} ELSE {}, FALSE)
    ELSE IF in.logs = 1 /\ TooRecent(interval, force, in.age)
    THEN Returned(b, force, in, "False", TRUE, TRUE, {}, FALSE)
    ELSE IF in.busy
    THEN Returned(b, force, in, "raised", TRUE, TRUE, {}, FALSE)
    ELSE IF in.run = "ok"
    THEN Returned(b, force, in, "True", TRUE, TRUE, {}, TRUE)
    ELSE Returned(b, force, in, "raised", TRUE, TRUE, {}, TRUE)

\* BackupConfig.backup(app, force): what it does and returns
Backup(b, interval, force, in) ==
    IF ManualOnly(interval, force)
    THEN Returned(b, force, in, "False", FALSE, FALSE, {}, FALSE)
    ELSE IF ~in.mounted
    THEN Returned(b, force, in, "False", TRUE, FALSE,
                  {"volume_not_mounted"}, FALSE)
    ELSE IF in.logs > 1
    THEN Returned(b, force, in, "SystemExit", TRUE, TRUE, {}, FALSE)
    ELSE IF in.logs = 1 /\ AlreadyBackedUp(in.age)
    THEN Returned(b, force, in, "False", TRUE, TRUE,
                  IF force THEN {"already_backed_up"} ELSE {}, FALSE)
    ELSE IF in.logs = 1 /\ TooRecent(interval, force, in.age)
    THEN Returned(b, force, in, "False", TRUE, TRUE, {}, FALSE)
    ELSE IF in.busy
    THEN Returned(b, force, in, "False", TRUE, TRUE, {}, FALSE)
    ELSE IF in.run = "ok"
    THEN Returned(b, force, in, "True", TRUE, TRUE, {}, TRUE)
    ELSE Returned(b, force, in, "raised", TRUE, TRUE, {}, TRUE)

\* what a call can find; there is an age only with a single sync log
Inputs ==
    { in \in [mounted : BOOLEAN, logs : LogCounts, age : Ages, busy : BOOLEAN,
              run : Outcomes] : in.logs # 1 => in.age = 0 }

\* faulty variant of Breaks: the pass goes on after a run
BreaksNever(result) == FALSE

\* main_loop: if backup.backup(interface): break
Breaks(result) == result = "True"

\* main_loop wakes up and starts a pass over the configured backups
MainLoopTick ==
    /\ sch_pc = "sleep"
    /\ sch_pc' = "pass"
    /\ sch_idx' = 1
    /\ sch_ran' = 0
    /\ UNCHANGED <<sch_interval, sch_call>>

\* main_loop calls backup() of the next configured backup
MainLoopBackup ==
    /\ sch_pc = "pass"
    /\ \E in \in Inputs :
        LET r == Backup(sch_idx, sch_interval[sch_idx], FALSE, in)
        IN /\ sch_call' = r
           /\ sch_ran' = sch_ran + (IF r.task THEN 1 ELSE 0)
           /\ IF r.result \in {"raised", "SystemExit"}
              THEN sch_pc' = "dead" /\ sch_idx' = sch_idx
              ELSE IF Breaks(r.result) \/ sch_idx = MaxBackups
              THEN sch_pc' = "sleep" /\ sch_idx' = sch_idx
              ELSE sch_pc' = "pass" /\ sch_idx' = sch_idx + 1
    /\ UNCHANGED sch_interval

\* backup(app, force=True): a backup started by hand while main_loop sleeps
BackupForced ==
    /\ sch_pc = "sleep"
    /\ \E b \in Backups, in \in Inputs :
        sch_call' = Backup(b, sch_interval[b], TRUE, in)
    /\ UNCHANGED <<sch_interval, sch_pc, sch_idx, sch_ran>>

NextSchedule ==
    \/ MainLoopTick /\ UNCHANGED <<treeVars, taskVars, rclVars, runVars, gateVars, logVars,
           destVars>>
    \/ MainLoopBackup /\ UNCHANGED <<treeVars, taskVars, rclVars, runVars, gateVars, logVars,
           destVars>>
    \/ BackupForced /\ UNCHANGED <<treeVars, taskVars, rclVars, runVars, gateVars, logVars,
           destVars>>

InitOfSchedule ==
    /\ InitAll /\ threshold = 0 /\ last_log = FALSE
    /\ sch_interval \in [Backups -> Intervals]

SpecSchedule == InitOfSchedule /\ [][NextSchedule]_vars

\* the call of backup() that returned last, and its interval
Called == sch_call # NoCall

IntervalOfCall == sch_interval[sch_call.backup]

\* the call got as far as comparing the last log with the snapshot
AgeKnown == Called /\ sch_call.mounted /\ sch_call.logs = 1

(***************************************************************************)
(* C11: when the age of the last completed transfer relative to the        *)
(* freshest snapshot is exactly zero, backup() creates no BackupTask and   *)
(* returns false, forced or not, and the 'already backed up' notification  *)
(* is sent exactly when the run was forced.                                *)
(***************************************************************************)
C11_ZeroAgeIsSkipped ==
    (AgeKnown /\ sch_call.age = 0)
        => /\ ~sch_call.task
           /\ sch_call.result = "False"
           /\ ("already_backed_up" \in sch_call.notes) <=> sch_call.force

C11_Witness ==
    /\ AgeKnown /\ sch_call.age = 0 /\ sch_call.force
    /\ sch_call.notes = {"already_backed_up"}
    /\ sch_call.result = "False"

Acquired == sch_call.mounted /\ ~sch_call.busy

C13_ManualOnlyIsSkippedEntirely ==
    (Called /\ IntervalOfCall = NoInterval /\ ~sch_call.force)
        => /\ sch_call.result = "False"
           /\ ~sch_call.snapshot
           /\ ~sch_call.remote
           /\ sch_call.notes = {}
           /\ ~sch_call.task

C13_Witness ==
    /\ Called /\ IntervalOfCall = NoInterval /\ ~sch_call.force
    /\ sch_call.mounted /\ sch_call.logs = 0 /\ ~sch_call.busy
    /\ sch_call.result = "False"

RunPaths == {<<"a">>, <<"b", "c">>}

\* the records of a scout log: {"skipped": ..} and "Renamed from" records
ScoutRecords ==
    [kind : {"skipped"}, path : RunPaths, size : CopySizes, action : {"copy"},
     source : {NoPath}]
    \cup [kind : {"skipped"}, path : RunPaths, size : {1}, action : {"delete"},
          source : {NoPath}]
    \cup [kind : {"renamed"}, path : {<<"b", "c">>}, size : {0},
          action : {"move-dest"}, source : {<<"a">>}]

ScoutLogs == UNION { [1..n -> ScoutRecords] : n \in 0..MaxLines }

\* scout_log_to_tree: the records are added in order, up to the first that
\* raises
RECURSIVE ScoutLogToTree(_, _, _)
ScoutLogToTree(t, log, i) ==
    IF i > Len(log) THEN [tree |-> t, err |-> "ok"]
    ELSE LET rec == log[i]
             r == IF rec.kind = "skipped"
                  THEN AddFile(t, rec.path, rec.size, rec.action, NoPath)
                  ELSE Renamed(t, rec.path, rec.source)
         IN IF r.err # "ok" THEN r ELSE ScoutLogToTree(r.tree, log, i + 1)

\* exit status of the sync tool: success, or a fatal error
ExitCodes == {0, 7}

Issue(cmd) == Append(cmds, cmd)

\* faulty variant of RunRaises: idle() is not part of the finally clause
RunRaisesSilently(err, issued, told) ==
    /\ task_pc' = "failed"
    /\ task_err' = err
    /\ cmds' = Append(issued, "umount")
    /\ mounted' = FALSE
    /\ announced' = told

\* an exception inside the try of perform(): cleanup() and idle() run in the
\* finally clause
RunRaises(err, issued, told) ==
    /\ task_pc' = "failed"
    /\ task_err' = err
    /\ cmds' = Append(issued, "umount")
    /\ mounted' = FALSE
    /\ announced' = Append(told, [ev |-> "idle", arg |-> 0])

\* perform(): mkdir of destination/latest through rclone(), then prepare
RunPerform ==
    /\ task_pc = "created"
    /\ cmds' = Issue("mkdir")
    /\ \E ok \in BOOLEAN :
        IF ok
        THEN /\ task_pc' = "scout"
             /\ announced' = Notify("prepare", 0)
             /\ task_err' = task_err
        ELSE /\ task_pc' = "raised"
             /\ task_err' = "NotImplementedError"
             /\ announced' = announced
    /\ UNCHANGED <<treeVars, nlines, threshold, backup_size, large, exclude,
                   files>>
    /\ UNCHANGED <<mounted, last_log, scout_rc, sync_rc, sync_tree,
                   transferred, items, nsync>>

\* backup_scout: the dry run, its log into the tree, the export
RunScout ==
    /\ task_pc = "scout"
    /\ \E log \in ScoutLogs, rc \in ExitCodes :
        LET r == ScoutLogToTree(EmptyTree, log, 1)
        IN /\ tree' = r.tree
           /\ nlines' = Len(log)
           /\ scout_rc' = rc
           /\ IF r.err # "ok"
              THEN RunRaises(r.err, Issue("scout"), announced)
              ELSE IF ExportRaises(r.tree)
              THEN RunRaises("KeyError", Issue("scout"), announced)
              ELSE /\ task_pc' = "scouted"
                   /\ cmds' = Issue("scout")
                   /\ UNCHANGED <<task_err, mounted, announced>>
    /\ UNCHANGED <<cache, last, touched, threshold, backup_size, large,
                   exclude, files>>
    /\ UNCHANGED <<last_log, sync_rc, sync_tree, transferred, items, nsync>>

\* faulty variant of Proceeds: a backup of size 0 is synced as well
ProceedsAlways(size) == TRUE

\* perform(): if backup_size != 0
Proceeds(size) == size # 0

\* perform() after get_user_feedback: a backup of size 0 ends the run, any
\* other is announced and backup_sync lists the files and starts the sync
RunStartBackup ==
    /\ task_pc = "decided"
    /\ IF Proceeds(backup_size)
       THEN /\ announced' = Notify("start_backup", backup_size)
            /\ files' = IterFiles(tree, ROOT, exclude.entries)
            /\ cmds' = Issue("sync")
            /\ task_pc' = "sync"
            /\ mounted' = mounted
       ELSE /\ announced' = Notify("idle", 0)
            /\ files' = files
            /\ cmds' = Issue("umount")
            /\ task_pc' = "idle"
            /\ mounted' = FALSE
    /\ UNCHANGED <<treeVars, task_err, nlines, threshold, backup_size, large,
                   exclude>>
    /\ UNCHANGED <<last_log, scout_rc, sync_rc, sync_tree, transferred, items,
                   nsync>>

\* faulty variant of Progress: the size of the item alone is reported
ProgressOfItem(sofar, size) == size

\* backup_sync: transferred += item.size
Progress(sofar, size) == sofar + size

\* sync_log_to_tree and the loop of backup_sync on a "Copied" record: the
\* item is looked up in the scout tree, added to the sync tree and yielded;
\* the loop adds its size and reports
RunSyncCopied ==
    /\ task_pc = "sync"
    /\ nsync < MaxSyncLines
    /\ nsync' = nsync + 1
    /\ \E p \in files :
        LET r == AddFile(sync_tree, p, tree[p].size, "copy", NoPath)
        IN /\ sync_tree' = r.tree
           /\ IF r.err # "ok"
              THEN /\ RunRaises(r.err, cmds, announced)
                   /\ UNCHANGED <<transferred, items>>
              ELSE /\ transferred' = Progress(transferred, tree[p].size)
                   /\ items' = Append(items, p)
                   /\ announced' = Notify("update_progress", transferred')
                   /\ UNCHANGED <<task_pc, task_err, cmds, mounted>>
    /\ UNCHANGED <<treeVars, nlines, threshold, backup_size, large, exclude,
                   files>>
    /\ UNCHANGED <<last_log, scout_rc, sync_rc>>

\* a line of the sync log that is no JSON, or any other record
RunSyncOther ==
    /\ task_pc = "sync"
    /\ nsync < MaxSyncLines
    /\ nsync' = nsync + 1
    /\ UNCHANGED <<treeVars, taskVars>>
    /\ UNCHANGED <<mounted, cmds, last_log, scout_rc, sync_rc, sync_tree,
                   transferred, items>>

\* backup_sync after the log: the sync tool has ended (its status is not
\* looked at), the transferred marker is written through rclone(); then
\* finish_backup
RunSyncEnd ==
    /\ task_pc = "sync"
    /\ \E rc \in ExitCodes, ok \in BOOLEAN :
        /\ sync_rc' = rc
        /\ IF ok
           THEN /\ cmds' = Issue("touch_transferred")
                /\ announced' = Notify("finish_backup", 0)
                /\ task_pc' = "finalize"
                /\ UNCHANGED <<task_err, mounted>>
           ELSE RunRaises("NotImplementedError", Issue("touch_transferred"),
                          announced)
    /\ UNCHANGED <<treeVars, nlines, threshold, backup_size, large, exclude,
                   files>>
    /\ UNCHANGED <<last_log, scout_rc, sync_tree, transferred, items, nsync>>

\* the commands of finalize(), in order
FinalizeCommands(log) ==
    IF log THEN <<"move", "size", "touch_size", "copy">> ELSE <<"copy">>

\* finalize(): each command goes through rclone() and may raise; then the
\* finally clause of perform()
RunFinalize ==
    /\ task_pc = "finalize"
    /\ LET L == FinalizeCommands(last_log)
       IN \E k \in 0..Len(L) :
            IF k = 0
            THEN /\ cmds' = Append(cmds \o L, "umount")
                 /\ mounted' = FALSE
                 /\ announced' = Notify("idle", 0)
                 /\ task_pc' = "idle"
                 /\ task_err' = task_err
            ELSE RunRaises("NotImplementedError", cmds \o SubSeq(L, 1, k),
                           announced)
    /\ UNCHANGED <<treeVars, nlines, threshold, backup_size, large, exclude,
                   files>>
    /\ UNCHANGED <<last_log, scout_rc, sync_rc, sync_tree, transferred, items,
                   nsync>>

\* AppInterface.abortBackup while the scout or the sync is running: the
\* request is passed on and nothing is done with it
RunAbort ==
    /\ task_pc \in {"scout", "scouted", "sync"}
    /\ ~abort
    /\ abort' = TRUE
    /\ UNCHANGED <<treeVars, taskVars, runState>>

NextRun ==
    \/ RunPerform /\ UNCHANGED <<rclVars, schVars, abort, gateVars, logVars,
           destVars>>
    \/ RunScout /\ UNCHANGED <<rclVars, schVars, abort, gateVars, logVars,
           destVars>>
    \/ GetUserFeedback /\ UNCHANGED <<rclVars, schVars, runVars, gateVars, logVars,
           destVars>>
    \/ ContinueBackup /\ UNCHANGED <<rclVars, schVars, runVars, gateVars, logVars,
           destVars>>
    \/ SkipBackup /\ UNCHANGED <<rclVars, schVars, runVars, gateVars, logVars,
           destVars>>
    \/ RunStartBackup /\ UNCHANGED <<rclVars, schVars, abort, gateVars, logVars,
           destVars>>
    \/ RunSyncCopied /\ UNCHANGED <<rclVars, schVars, abort, gateVars, logVars,
           destVars>>
    \/ RunSyncOther /\ UNCHANGED <<rclVars, schVars, abort, gateVars, logVars,
           destVars>>
    \/ RunSyncEnd /\ UNCHANGED <<rclVars, schVars, abort, gateVars, logVars,
           destVars>>
    \/ RunFinalize /\ UNCHANGED <<rclVars, schVars, abort, gateVars, logVars,
           destVars>>
    \/ RunAbort /\ UNCHANGED <<rclVars, schVars, gateVars, logVars,
           destVars>>

InitOfRun ==
    /\ InitAll /\ threshold \in 0..MaxThreshold
    /\ sch_interval = NoBackups /\ last_log \in BOOLEAN

SpecRun == InitOfRun /\ [][NextRun]_vars

\* a command the run has issued, a notification it has sent
Issued(cmd) == \E i \in 1..Len(cmds) : cmds[i] = cmd

Told(ev) == \E i \in 1..Len(announced) : announced[i].ev = ev

RunEnded == task_pc \in {"idle", "failed", "raised"}

(***************************************************************************)
(* C15: a BackupTask that mounted its snapshot has unmounted it when       *)
(* perform() has ended, on every exit path: success, skip, and the failure *)
(* of any step, the steps before the scout included.                       *)
(***************************************************************************)
C15_UnmountedOnEveryExit == RunEnded => (~mounted /\ Issued("umount"))

\* the commands that change the remote store after the sync
AfterSyncCommands == {"touch_transferred", "move", "touch_size", "copy"}

FinalizeExecuted == Issued("move") \/ Issued("copy")

(***************************************************************************)
(* C16: when the scout or the sync tool ends with a non-zero status, the   *)
(* task is aborted: finalize is not executed and no command that changes   *)
(* the remote store is issued afterwards (no sync after a failed scout, no *)
(* transferred marker, no rotation, no size marker, no copy of the logs).  *)
(***************************************************************************)
C16_ToolFailureAborts ==
    /\ scout_rc # 0 => ~Issued("sync")
    /\ (scout_rc # 0 \/ sync_rc # 0)
         => /\ \A c \in AfterSyncCommands : ~Issued(c)
            /\ ~FinalizeExecuted
            /\ task_pc # "idle"

(***************************************************************************)
(* C17: after the skip decision the backup size is zero and nothing is     *)
(* transferred: the sync tool is not run, no start_backup and no           *)
(* update_progress is sent and no transferred marker is written.           *)
(***************************************************************************)
C17_SkipTransfersNothing ==
    exclude.skip
        => /\ backup_size = 0
           /\ ~Issued("sync")
           /\ ~Told("start_backup") /\ ~Told("update_progress")
           /\ ~Issued("touch_transferred")

C17_Witness ==
    /\ exclude.skip /\ task_pc = "idle" /\ ~mounted
    /\ Told("threshold_exceeded")

(***************************************************************************)
(* C18 (as claimed): after the skip decision the run goes from the         *)
(* decision to finalize: finalize is executed before the task is idle      *)
(* again.                                                                  *)
(***************************************************************************)
C18_SkipFinalizes == (exclude.skip /\ task_pc = "idle") => FinalizeExecuted

(***************************************************************************)
(* C18 (amended): after the skip decision the run goes from the decision   *)
(* straight to idle: finalize is not executed, the snapshot is unmounted   *)
(* and idle is the last notification.                                      *)
(***************************************************************************)
C18_SkipEndsWithoutFinalize ==
    /\ exclude.skip => (~FinalizeExecuted /\ task_pc \in {"decided", "idle"})
    /\ (exclude.skip /\ task_pc = "idle")
         => /\ ~mounted
            /\ cmds[Len(cmds)] = "umount"
            /\ announced[Len(announced)].ev = "idle"

C18_Witness ==
    /\ exclude.skip /\ task_pc = "idle" /\ last_log
    /\ cmds = <<"mount", "mkdir", "scout", "umount">>

\* the decision requests of the run
Requests == SelectSeq(announced, LAMBDA n : n.ev = "threshold_exceeded")

GateUsedRight ==
    /\ Len(Requests) <= 1
    /\ Len(Requests) = 1 => large # {}
    /\ (large = {} /\ task_pc \in {"decided", "sync", "finalize", "idle"})
         => (Len(Requests) = 0 /\ exclude = NoDecision)

(***************************************************************************)
(* C19 (as claimed): the decision is requested at most once in a run and   *)
(* only when there are large entries; when the scout finds none, the run   *)
(* goes on to the sync with nothing excluded, without a request and        *)
(* without waiting.                                                        *)
(***************************************************************************)
C19_NoLargeEntryGoesToSync ==
    /\ []GateUsedRight
    /\ [][(task_pc = "decided" /\ large = {} /\ task_pc' # "decided")
            => task_pc' = "sync"]_vars

(***************************************************************************)
(* C19 (amended): the same, but without large entries the run goes on to   *)
(* the sync only when the backup size is not zero; when it is zero the run *)
(* ends without a sync (and without a request and without waiting).        *)
(***************************************************************************)
C19_NoLargeEntryGoesToSyncUnlessEmpty ==
    /\ []GateUsedRight
    /\ [][(task_pc = "decided" /\ large = {} /\ task_pc' # "decided")
            => /\ backup_size # 0 => (task_pc' = "sync" /\ Issued("sync")')
               /\ backup_size = 0 => (task_pc' = "idle" /\ ~Issued("sync")')
          ]_vars

C19_Witness ==
    /\ task_pc = "sync" /\ large = {} /\ backup_size # 0
    /\ Len(Requests) = 0 /\ exclude = NoDecision

\* the progress reports of the run, and the sizes of the first k items
Reports == SelectSeq(announced, LAMBDA n : n.ev = "update_progress")

RECURSIVE SizeOfItems(_)
SizeOfItems(k) == IF k = 0 THEN 0 ELSE SizeOfItems(k - 1) + tree[items[k]].size

(***************************************************************************)
(* C20: during the sync there is one progress report per resolved item, in *)
(* the order of the items; each reports the sum of the sizes of the items  *)
(* resolved so far, and the reported values never decrease.                *)
(***************************************************************************)
C20_ProgressIsCumulative ==
    /\ Len(Reports) = Len(items)
    /\ \A k \in 1..Len(Reports) : Reports[k].arg = SizeOfItems(k)
    /\ \A k \in 1..(Len(Reports) - 1) : Reports[k].arg <= Reports[k + 1].arg

C20_Witness ==
    /\ Len(items) = 2 /\ Len(Reports) = 2
    /\ tree[items[1]].size # tree[items[2]].size
    /\ Reports[2].arg = tree[items[1]].size + tree[items[2]].size

(***************************************************************************)
(* C21: an abort request made while the task is preparing or syncing ends  *)
(* the tool process and the run: the task is aborted, finalize is not      *)
(* executed and the snapshot is unmounted.  Checked in the form a finite   *)
(* run refutes: after an abort request the run does not go on to write the *)
(* transferred marker or to finalize, and does not end as a completed run. *)
(***************************************************************************)
C21_AbortStopsTheRun ==
    abort => /\ ~Issued("touch_transferred")
             /\ ~FinalizeExecuted
             /\ ~Told("finish_backup")

\* a command run through rclone() has ended with an error that is not a
\* connection error (rclone() raises)
ToolExitError == task_err = "NotImplementedError"

(***************************************************************************)
(* C22: an error exit of the tool aborts the task only: the run ends idle, *)
(* with the idle notification sent, and perform() returns to backup() and  *)
(* to the scheduling loop instead of raising.                              *)
(***************************************************************************)
C22_ToolExitErrorEndsIdle ==
    ToolExitError => (task_pc = "idle" /\ Told("idle"))

\* the place of a notification in a run
Rank(ev) ==
    CASE ev = "prepare" -> 1
      [] ev = "threshold_exceeded" -> 2
      [] ev = "start_backup" -> 3
      [] ev = "update_progress" -> 4
      [] ev = "finish_backup" -> 5
      [] ev = "idle" -> 6

InOrder ==
    \A i \in 1..Len(announced), j \in 1..Len(announced) :
        i < j => \/ Rank(announced[i].ev) < Rank(announced[j].ev)
                 \/ /\ announced[i].ev = "update_progress"
                    /\ announced[j].ev = "update_progress"

VolumeNotMounted == Called /\ sch_call.snapshot /\ ~sch_call.mounted

SnapshotBusy ==
    /\ Called /\ sch_call.snapshot /\ sch_call.mounted /\ sch_call.busy
    /\ sch_call.logs <= 1
    /\ ~(sch_call.logs = 1 /\ AlreadyBackedUp(sch_call.age))
    /\ ~(sch_call.logs = 1
           /\ TooRecent(IntervalOfCall, sch_call.force, sch_call.age))

(***************************************************************************)
(* C24: VolumeNotMounted and a refused mount of the snapshot each make     *)
(* backup() skip the cycle: it returns false, no task is performed and the *)
(* pass of main_loop moves on to the next configured backup; for           *)
(* VolumeNotMounted the volume-not-mounted notification is sent, and no    *)
(* other.                                                                  *)
(***************************************************************************)
C24_UnavailableSourceSkipsTheCycle ==
    /\ [](VolumeNotMounted
            => /\ sch_call.result = "False" /\ ~sch_call.task
               /\ sch_call.notes = {"volume_not_mounted"}
               /\ ~sch_call.remote)
    /\ [](SnapshotBusy
            => /\ sch_call.result = "False" /\ ~sch_call.task
               /\ sch_call.notes = {})
    /\ [][(MainLoopBackup /\ (VolumeNotMounted' \/ SnapshotBusy'))
            => /\ sch_ran' = sch_ran
               /\ IF sch_idx < MaxBackups
                  THEN sch_pc' = "pass" /\ sch_idx' = sch_idx + 1
                  ELSE sch_pc' = "sleep"]_vars

C24_Witness ==
    /\ SnapshotBusy /\ ~sch_call.force
    /\ sch_pc = "pass" /\ sch_idx = sch_call.backup + 1

(***************************************************************************)
(* The decision gate (SpecGate): the worker asks (threshold_exceeded) and  *)
(* waits in exclude_queue.get(); the decision-maker thread answers with    *)
(* continue_backup(excluded) or skip_backup(), which put_nowait into the   *)
(* queue of size 1.  The steps of the two threads interleave.  posted is   *)
(* the first response posted, put_err tells that the last put raised       *)
(* queue.Full.                                                             *)
(***************************************************************************)
\* faulty variant of PutNowait: a full queue is overwritten
PutOverwriting(q, x) == [queue |-> <<x>>, ok |-> TRUE]

\* Queue(maxsize=1).put_nowait(x)
PutNowait(q, x) ==
    IF Len(q) >= 1 THEN [queue |-> q, ok |-> FALSE]
    ELSE [queue |-> Append(q, x), ok |-> TRUE]

\* faulty variant of QueueGet: get_nowait, with "nothing excluded" when the
\* queue is empty
QueueGetNowait(q) ==
    [ready |-> TRUE,
     item |-> IF q # << >> THEN Head(q) ELSE NoDecision,
     rest |-> IF q # << >> THEN Tail(q) ELSE q]

\* Queue.get(): blocks while the queue is empty
QueueGet(q) ==
    [ready |-> q # << >>,
     item |-> IF q # << >> THEN Head(q) ELSE NoResponse,
     rest |-> IF q # << >> THEN Tail(q) ELSE q]

\* a response is put into the queue by the decision-maker thread
Post(resp) ==
    /\ Told("threshold_exceeded")
    /\ nposts < MaxPosts
    /\ nposts' = nposts + 1
    /\ LET r == PutNowait(exclude_queue, resp)
       IN /\ exclude_queue' = r.queue
          /\ put_err' = ~r.ok
    /\ posted' = IF nposts = 0 THEN resp ELSE posted
    /\ UNCHANGED <<treeVars, taskVars>>

\* continue_backup(excluded): the app excludes large entries it was shown
GateContinue ==
    \E ex \in SUBSET large :
        /\ Cardinality(ex) <= MaxExclude
        /\ Post([skip |-> FALSE, entries |-> ex])

\* skip_backup()
GateSkip == Post([skip |-> TRUE, entries |-> {}])

\* get_user_feedback after exclude_queue.get() has returned
GateGet ==
    /\ task_pc = "awaiting"
    /\ LET g == QueueGet(exclude_queue)
       IN /\ g.ready
          /\ exclude_queue' = g.rest
          /\ exclude' = g.item
          /\ backup_size' =
                IF g.item.skip THEN 0
                ELSE SizeAfterExclusion(tree, cache, backup_size, g.item.entries)
    /\ task_pc' = "decided"
    /\ UNCHANGED <<treeVars, task_err, nlines, threshold, large, announced,
                   files>>
    /\ UNCHANGED <<posted, nposts, put_err>>

NextGate ==
    \/ RunPerform /\ UNCHANGED <<rclVars, schVars, abort, gateVars, logVars,
           destVars>>
    \/ RunScout /\ UNCHANGED <<rclVars, schVars, abort, gateVars, logVars,
           destVars>>
    \/ GetUserFeedback /\ UNCHANGED <<rclVars, schVars, runVars, gateVars, logVars,
           destVars>>
    \/ GateContinue /\ UNCHANGED <<rclVars, schVars, runVars, logVars,
           destVars>>
    \/ GateSkip /\ UNCHANGED <<rclVars, schVars, runVars, logVars,
           destVars>>
    \/ GateGet /\ UNCHANGED <<rclVars, schVars, runVars, logVars,
           destVars>>
    \/ RunStartBackup /\ UNCHANGED <<rclVars, schVars, abort, gateVars, logVars,
           destVars>>

InitOfGate ==
    /\ InitAll /\ threshold \in 0..MaxThreshold
    /\ sch_interval = NoBackups /\ last_log = FALSE

SpecGate == InitOfGate /\ [][NextGate]_vars

\* the worker is past the wait for the decision
PastTheGate == Told("threshold_exceeded") /\ task_pc \in {"decided", "sync", "idle"}

(***************************************************************************)
(* C25: after the decision request the worker waits for a response: the    *)
(* sync does not start and the run does not end before a response was      *)
(* posted, whatever the interleaving of the two threads, and the exclusion *)
(* applied to the sync is the posted one.                                  *)
(***************************************************************************)
C25_WorkerWaitsForTheResponse ==
    PastTheGate
        => /\ nposts >= 1
           /\ exclude = posted
           /\ task_pc = "sync" => files = IterFiles(tree, ROOT, posted.entries)
           /\ task_pc = "idle" => (posted.skip \/ backup_size = 0)

C25_Witness ==
    /\ PastTheGate /\ task_pc = "sync"
    /\ posted.entries # {} /\ files # {}
    /\ exclude = posted

(***************************************************************************)
(* C26: the gate holds one response: a response posted while an earlier    *)
(* one is still in the queue raises (queue.Full) and leaves the queue as   *)
(* it is, so the worker gets the first response posted.                    *)
(***************************************************************************)
C26_SecondResponseIsRefused ==
    /\ [](Len(exclude_queue) <= 1)
    /\ [][(nposts' = nposts + 1 /\ exclude_queue # << >>)
            => (put_err' /\ exclude_queue' = exclude_queue)]_vars
    /\ [][(task_pc = "awaiting" /\ task_pc' = "decided") => exclude' = posted]_vars

C26_Witness ==
    /\ put_err /\ nposts = 2 /\ task_pc = "decided"
    /\ exclude = posted /\ posted.skip

\* an entry whose transfer size is above the threshold
Exceeds(p) == TransferSize(tree, cache, p) > threshold

(***************************************************************************)
(* C27: an entry (file, link or directory, the root included) is among the *)
(* large entries if and only if its transfer size is above the threshold   *)
(* and that of no entry below it is; an entry whose transfer size equals   *)
(* the threshold is not among them.                                        *)
(***************************************************************************)
C27_LargeEntriesAreTheLowestExceeding ==
    FeedbackDone =>
        \A p \in DOMAIN tree :
            /\ p \in large
                 <=> /\ Exceeds(p)
                     /\ \A q \in DOMAIN tree : IsProperPrefix(p, q) => ~Exceeds(q)
            /\ TransferSize(tree, cache, p) = threshold => p \notin large

\* a directory is yielded although one file below it equals the threshold
C27_Witness ==
    /\ FeedbackDone
    /\ <<"b">> \in large
    /\ <<"b", "c">> \in DOMAIN tree
    /\ threshold > 0
    /\ TransferSize(tree, cache, <<"b", "c">>) = threshold

\* the directories above a path
Above(path) == { Prefix(path, i) : i \in 1..(Len(path) - 1) }

\* the entry at `path` is as an insert of these values has to leave it
Inserted(t, path, size, action, source) ==
    /\ path \in DOMAIN t
    /\ t[path].action = action
    /\ t[path].size = size
    /\ t[path].source = source

(***************************************************************************)
(* C28: an insert that succeeds leaves the entry at its path with the      *)
(* given action, size and metadata, whether the entry was there before     *)
(* without an action (a directory made for an earlier insert below it) or  *)
(* not; the directories it makes above a fresh path have no action.        *)
(***************************************************************************)
C28_InsertSetsActionSizeMetadata ==
    [][\A path \in Paths :
          /\ \A action \in SkipActions, size \in CopySizes :
                 ( /\ ScoutSkippedRecord(path, size, action)
                   /\ AddFile(tree, path, size, action, NoPath).err = "ok" )
                 => /\ Inserted(tree', path, size, action, NoPath)
                    /\ \A d \in Above(path) \ DOMAIN tree :
                           tree'[d] = NewDirectory
          /\ \A old \in Paths :
                 ( /\ ScoutRenamedRecord(path, old)
                   /\ AddFile(tree, path, 0, "move-dest", old).err = "ok" )
                 => Inserted(tree', path, 0, "move-dest", old)]_vars

(***************************************************************************)
(* C29: a rename record whose old path is not in the tree raises nothing:  *)
(* the parser goes on with the records that follow.                        *)
(***************************************************************************)
C29_MissingRenameSourceIsRecoverable ==
    [][\A new \in Paths, old \in Paths :
          ( /\ ScoutRenamedRecord(new, old)
            /\ AddFile(tree, new, 0, "move-dest", old).err = "ok"
            /\ Get(AddFile(tree, new, 0, "move-dest", old).tree, old) # "ok" )
          => /\ task_pc' = "scout"
             /\ task_err' = task_err]_vars

(***************************************************************************)
(* scout_log_to_tree line by line (SpecLog): one step per iteration of its *)
(* loop over the lines of a scout log, the lines that are no record and    *)
(* the "remove directory" records included.                                *)
(***************************************************************************)
\* a line that is no JSON, or JSON with neither "skipped" nor a rename
OtherLine ==
    [kind |-> "other", path |-> NoPath, size |-> 0, action |-> NoAction,
     source |-> NoPath]

\* {"skipped": "remove directory", "object": "b"}
RemoveDirectory ==
    [kind |-> "remove directory", path |-> <<"b">>, size |-> 0,
     action |-> NoAction, source |-> NoPath]

\* a line whose bytes are no UTF-8: json.loads raises UnicodeDecodeError,
\* which is no JSONDecodeError
UndecodableLine ==
    [kind |-> "undecodable", path |-> NoPath, size |-> 0, action |-> NoAction,
     source |-> NoPath]

\* a line that is JSON but no object, as `5` or `"text"`: try_json returns
\* the value
ScalarLine ==
    [kind |-> "scalar", path |-> NoPath, size |-> 0, action |-> NoAction,
     source |-> NoPath]

ScoutLines ==
    ScoutRecords \cup {OtherLine, RemoveDirectory, UndecodableLine, ScalarLine}

LinesOfLogs == UNION { [1..n -> ScoutLines] : n \in 0..MaxLines }

AtLine(kind) ==
    /\ task_pc = "scout"
    /\ scout_idx <= Len(scout_lines)
    /\ scout_lines[scout_idx].kind = kind

\* `continue`, and a record that neither `if` nor `elif` takes
ParseOther ==
    /\ AtLine("other")
    /\ scout_idx' = scout_idx + 1
    /\ TaskKeeps
    /\ UNCHANGED <<treeVars, nlines, scout_lines>>

\* try_json(line) raises: only json.JSONDecodeError is caught there
ParseUndecodable ==
    /\ AtLine("undecodable")
    /\ scout_idx' = scout_idx + 1
    /\ TaskRaises("UnicodeDecodeError")
    /\ UNCHANGED <<treeVars, nlines, scout_lines>>

\* msg.get('skipped') on a value that is no dict
ParseScalar ==
    /\ AtLine("scalar")
    /\ scout_idx' = scout_idx + 1
    /\ TaskRaises("AttributeError")
    /\ UNCHANGED <<treeVars, nlines, scout_lines>>

\* tree.add_file(msg['object'], msg['size'], action=skipped)
ParseSkipped ==
    /\ AtLine("skipped")
    /\ LET rec == scout_lines[scout_idx]
           r == AddFile(tree, rec.path, rec.size, rec.action, NoPath)
       IN /\ tree' = r.tree
          /\ IF r.err = "ok" THEN TaskKeeps ELSE TaskRaises(r.err)
    /\ scout_idx' = scout_idx + 1
    /\ UNCHANGED <<cache, last, touched, nlines, scout_lines>>

\* tree.add_file(.., 0, action='move-dest', ..); tree.get(source).metadata
ParseRenamed ==
    /\ AtLine("renamed")
    /\ LET rec == scout_lines[scout_idx]
           r == Renamed(tree, rec.path, rec.source)
       IN /\ tree' = r.tree
          /\ IF r.err = "ok" THEN TaskKeeps ELSE TaskRaises(r.err)
    /\ scout_idx' = scout_idx + 1
    /\ UNCHANGED <<cache, last, touched, nlines, scout_lines>>

\* the tree is returned
ParseReturns ==
    /\ task_pc' = "scouted"
    /\ UNCHANGED <<task_err, threshold, backup_size, large, exclude,
                   announced, files>>
    /\ UNCHANGED <<treeVars, nlines, logVars>>

\* faulty variant of ParseRemoveDirectory: `continue` for `break`
ParseRemoveDirectoryContinues ==
    /\ AtLine("remove directory")
    /\ scout_idx' = scout_idx + 1
    /\ TaskKeeps
    /\ UNCHANGED <<treeVars, nlines, scout_lines>>

\* if skipped == 'remove directory': break
ParseRemoveDirectory ==
    /\ AtLine("remove directory")
    /\ ParseReturns

\* the lines are exhausted
ParseEnd ==
    /\ task_pc = "scout"
    /\ scout_idx > Len(scout_lines)
    /\ ParseReturns

NextLog ==
    \/ ParseOther /\ UNCHANGED <<rclVars, schVars, runVars, gateVars,
           destVars>>
    \/ ParseUndecodable /\ UNCHANGED <<rclVars, schVars, runVars, gateVars,
           destVars>>
    \/ ParseScalar /\ UNCHANGED <<rclVars, schVars, runVars, gateVars,
           destVars>>
    \/ ParseSkipped /\ UNCHANGED <<rclVars, schVars, runVars, gateVars,
           destVars>>
    \/ ParseRenamed /\ UNCHANGED <<rclVars, schVars, runVars, gateVars,
           destVars>>
    \/ ParseRemoveDirectory /\ UNCHANGED <<rclVars, schVars, runVars, gateVars,
           destVars>>
    \/ ParseEnd /\ UNCHANGED <<rclVars, schVars, runVars, gateVars,
           destVars>>

InitOfLog ==
    /\ InitTree /\ InitRclone /\ InitSchedule /\ InitRun /\ InitGate /\ InitDest
    /\ task_pc = "scout" /\ task_err = "none" /\ nlines = 0
    /\ backup_size = 0 /\ large = {} /\ exclude = NoDecision
    /\ announced = << >> /\ files = {}
    /\ threshold = 0 /\ sch_interval = NoBackups /\ last_log = FALSE
    /\ scout_lines \in LinesOfLogs
    /\ scout_idx = 1

SpecLog == InitOfLog /\ [][NextLog]_vars

\* the lines before the first "remove directory" record (all, without one)
IsRemoveDirectory(i) == scout_lines[i].kind = "remove directory"

FirstRemoveDirectory ==
    IF \E i \in DOMAIN scout_lines : IsRemoveDirectory(i)
    THEN CHOOSE i \in DOMAIN scout_lines :
             /\ IsRemoveDirectory(i)
             /\ \A j \in 1..(i - 1) : ~IsRemoveDirectory(j)
    ELSE Len(scout_lines) + 1

IsRecord(line) == line.kind \in {"skipped", "renamed"}

RecordsBefore ==
    SelectSeq(SubSeq(scout_lines, 1, FirstRemoveDirectory - 1), IsRecord)

(***************************************************************************)
(* C30: the tree the scout parser returns is the tree of the planned-skip  *)
(* and rename records before the first "remove directory" record, added in *)
(* order: no record after that record changes it.                          *)
(***************************************************************************)
C30_NothingAfterRemoveDirectory ==
    task_pc = "scouted" =>
        LET r == ScoutLogToTree(EmptyTree, RecordsBefore, 1)
        IN r.err = "ok" /\ tree = r.tree

\* a tree is returned that lacks the entry of a record after the break
C30_Witness ==
    /\ task_pc = "scouted"
    /\ DOMAIN tree # {ROOT}
    /\ \E i \in DOMAIN scout_lines :
           /\ i > FirstRemoveDirectory
           /\ IsRecord(scout_lines[i])
           /\ scout_lines[i].path \notin DOMAIN tree

\* the parser is at a line that is no structured record
AtNoRecord ==
    /\ task_pc = "scout"
    /\ scout_idx <= Len(scout_lines)
    /\ scout_lines[scout_idx].kind \in {"other", "undecodable", "scalar"}

(***************************************************************************)
(* C31: a line that cannot be parsed as a structured record raises nothing *)
(* and leaves the tree as it is: the parser goes on with the next line.    *)
(***************************************************************************)
C31_UnparseableLinesAreTolerated ==
    [][AtNoRecord =>
          /\ task_pc' = "scout"
          /\ task_err' = task_err
          /\ tree' = tree
          /\ scout_idx' = scout_idx + 1]_vars

\* the entries with an action that are neither in E nor below an entry of E
ToSync(E) ==
    { p \in DOMAIN tree :
        /\ tree[p].action # NoAction
        /\ \A x \in E : ~IsPrefix(x, p) }

(***************************************************************************)
(* C32: for the scout tree and every set E of its entries, iter_files      *)
(* yields exactly the entries that have an action and are neither in E nor *)
(* below an entry of E, each once; a directory without an action is not    *)
(* yielded, whatever it holds.                                             *)
(***************************************************************************)
C32_FilesToSyncAreTheActionsOutsideE ==
    task_pc = "scouted" =>
        \A E \in SUBSET DOMAIN tree :
            /\ IterFilesBag(tree, ROOT, E) = SetToBag(ToSync(E))
            /\ IterFiles(tree, ROOT, E) = ToSync(E)

\* a tree with a directory that has an action, one that has none, and
\* entries below both
C32_Witness ==
    /\ task_pc = "scouted"
    /\ <<"b", "c">> \in DOMAIN tree
    /\ <<"a">> \in DOMAIN tree
    /\ tree[<<"b">>].action = NoAction
    /\ IterFilesBag(tree, ROOT, {<<"a">>}) = SetToBag({<<"b", "c">>})

(***************************************************************************)
(* The destination over the runs of one configured backup (SpecDest):      *)
(* snapshots appear, backup() looks for the sync log in the root of the    *)
(* destination and decides, a task syncs, touches its marker and           *)
(* finalizes.  Files at the destination are named by the timestamp of a    *)
(* run; timestamps are numbered 1, 2, ...                                  *)
(***************************************************************************)
\* the root of the destination, as a directory of a file there
DestinationRoot == 0

\* <dir>/<name>_<ts>_<label>[_<bytes>] at the destination
DestFile(dir, ts, label, bytes) ==
    [dir |-> dir, ts |-> ts, label |-> label, bytes |-> bytes]

\* list_files("/<name>_*_sync.log", recursive=False, files_only=True)
SyncLogs(d) == { f \in d : f.dir = DestinationRoot /\ f.label = "sync.log" }

\* get_last_log and timestamp_from_log: the timestamp of the only sync log,
\* 0 for None
LastLog(d) ==
    IF SyncLogs(d) = {} THEN 0 ELSE (CHOOSE f \in SyncLogs(d) : TRUE).ts

\* backup_directory: destination / timestamp_from_log(self.last_log)
BackupDirectory(last_log_ts, ts) == last_log_ts

\* a call of rclone(): the subcommand and the files it names
Rclone(cmd, dir, ts, label, bytes) ==
    [cmd |-> cmd, dir |-> dir, ts |-> ts, label |-> label, bytes |-> bytes]

\* faulty variant of TransferredMarker: the bytes are left at 0
TransferredMarkerEmpty(ts, bytes) ==
    Rclone("touch", DestinationRoot, ts, "transferred", 0)

\* rclone('touch', destination / '<name>_<timestamp>_transferred_<bytes>')
TransferredMarker(ts, bytes) ==
    Rclone("touch", DestinationRoot, ts, "transferred", bytes)

\* faulty variant of FinalizeCalls: the logs of this run are copied first
FinalizeCallsCopyFirst(last_log_ts, ts, size) ==
    LET dir == BackupDirectory(last_log_ts, ts)
    IN << Rclone("copy", DestinationRoot, ts, "*", 0) >>
       \o (IF last_log_ts # 0
           THEN << Rclone("move", dir, last_log_ts, "*", 0),
                   Rclone("size", dir, 0, "", 0),
                   Rclone("touch", dir, dir, "size", size) >>
           ELSE << >>)

\* finalize() and record_backup_size(): the calls of rclone(), in order
FinalizeCalls(last_log_ts, ts, size) ==
    LET dir == BackupDirectory(last_log_ts, ts)
    IN (IF last_log_ts # 0
        THEN << Rclone("move", dir, last_log_ts, "*", 0),
                Rclone("size", dir, 0, "", 0),
                Rclone("touch", dir, dir, "size", size) >>
        ELSE << >>)
       \o << Rclone("copy", DestinationRoot, ts, "*", 0) >>

\* the names of the configured backups, split at their dots: home and
\* "my.backup"
Names == { <<"home">>, <<"my", "backup">> }

\* the logs that a run writes in logs_path
LocalLogs == {"scout.log", "sync.log"}

\* file_path(label, extension), copied to the root: with_suffix replaces
\* what follows the last dot of <name>_<timestamp>_<label>, so a name with a
\* dot gives <name up to its last dot>.<extension>, without timestamp and
\* label
FilePath(name, ts, log) ==
    IF Len(name) > 1
    THEN DestFile(DestinationRoot, 0, "log", 0)
    ELSE DestFile(DestinationRoot, ts, log, 0)

\* faulty variant of Included: the logs stay, the markers are moved
IncludedMarkersOnly(f, ts) ==
    f.dir = DestinationRoot /\ f.ts = ts /\ f.label = "transferred"

\* --include '/<name>_<ts>_*': the files of that run in the root
Included(f, ts) == f.dir = DestinationRoot /\ f.ts = ts

\* the destination after rclone has run a command
Execute(d, c) ==
    CASE c.cmd = "touch" -> d \cup {DestFile(c.dir, c.ts, c.label, c.bytes)}
      [] c.cmd = "move" ->
            { IF Included(f, c.ts) THEN [f EXCEPT !.dir = c.dir] ELSE f : f \in d }
      [] c.cmd = "copy" ->
            d \cup { FilePath(config_name, c.ts, l) : l \in LocalLogs }
      [] OTHER -> d

RECURSIVE ExecuteAll(_, _, _)
ExecuteAll(d, cs, i) ==
    IF i > Len(cs) THEN d ELSE ExecuteAll(Execute(d, cs[i]), cs, i + 1)

\* rclone(): with dry_run the command is echoed and not run
RcloneAll(d, cs) == IF dry_run THEN d ELSE ExecuteAll(d, cs, 1)

\* item.size of the items that the sync log reports as copied
ItemSizes == {1}

\* 'bytes' of rclone size --json
DirSizes == 0..1

\* the variables of a run that the runs at the destination leave alone
runRest == <<mounted, cmds, last_log, scout_rc, sync_rc, sync_tree, items, abort>>

\* the next local snapshot is there
DestNewSnapshot ==
    /\ dest_pc = "idle"
    /\ last_snapshot < MaxSnapshots
    /\ last_snapshot' = last_snapshot + 1
    /\ UNCHANGED <<config_name, dry_run, dest, dest_pc, timestamp,
                   task_last_log, dest_cmds,
                   reported, finalized, returned, transferred, nsync>>

\* BackupConfig.backup(app, force) up to task.perform(): the sync logs in
\* the root of the destination and the age of the only one decide
DestBackup ==
    /\ dest_pc = "idle"
    /\ \E force \in BOOLEAN, is_mounted \in BOOLEAN, busy \in BOOLEAN :
        LET logs == Cardinality(SyncLogs(dest))
            in == [mounted |-> is_mounted, logs |-> logs,
                   age |-> IF logs = 1 THEN last_snapshot - LastLog(dest) ELSE 0,
                   busy |-> busy, run |-> "ok"]
            r == Backup(1, sch_interval[1], force, in)
        IN IF r.task
           THEN /\ dest_pc' = "task"
                /\ timestamp' = last_snapshot
                /\ task_last_log' = LastLog(dest)
                /\ dest_cmds' = << >>
                /\ reported' = NotReported
                /\ transferred' = 0
                /\ nsync' = 0
                /\ returned' = "none"
           ELSE /\ dest_pc' = IF r.result = "SystemExit" THEN "dead" ELSE "idle"
                /\ returned' = r.result
                /\ UNCHANGED <<timestamp, task_last_log, dest_cmds, reported,
                               transferred, nsync>>
    /\ UNCHANGED <<config_name, dry_run, last_snapshot, dest, finalized>>

\* faulty variant of DestNothingToSync: backup() returns False when nothing
\* was transferred
DestNothingToSyncIsFalse ==
    /\ dest_pc = "task"
    /\ dest_pc' = "idle"
    /\ returned' = "False"
    /\ UNCHANGED <<config_name, dry_run, last_snapshot, dest, timestamp,
                   task_last_log, dest_cmds, reported, finalized, transferred,
                   nsync>>

\* perform(): the operator skips the backup, or its size is 0
DestNothingToSync ==
    /\ dest_pc = "task"
    /\ dest_pc' = "idle"
    /\ returned' = "True"
    /\ UNCHANGED <<config_name, dry_run, last_snapshot, dest, timestamp, task_last_log,
                   dest_cmds, reported, finalized, transferred, nsync>>

\* perform() raises before the transferred marker: nothing catches it
DestRaises ==
    /\ dest_pc \in {"task", "sync"}
    /\ dest_pc' = "dead"
    /\ returned' = "raised"
    /\ UNCHANGED <<config_name, dry_run, last_snapshot, dest, timestamp, task_last_log,
                   dest_cmds, reported, finalized, transferred, nsync>>

\* perform(): start_backup and backup_sync up to its loop
DestStartSync ==
    /\ dest_pc = "task"
    /\ dest_pc' = "sync"
    /\ UNCHANGED <<config_name, dry_run, last_snapshot, dest, timestamp, task_last_log,
                   dest_cmds, reported, finalized, returned, transferred,
                   nsync>>

\* backup_sync: transferred += item.size; update_progress(self, transferred)
DestSyncItem ==
    /\ dest_pc = "sync"
    /\ nsync < MaxItems
    /\ nsync' = nsync + 1
    /\ \E size \in ItemSizes : transferred' = Progress(transferred, size)
    /\ reported' = transferred'
    /\ UNCHANGED <<config_name, dry_run, last_snapshot, dest, dest_pc, timestamp,
                   task_last_log, dest_cmds, finalized, returned>>

\* backup_sync after the loop: the transferred marker is touched
DestSyncEnd ==
    /\ dest_pc = "sync"
    /\ LET c == TransferredMarker(timestamp, transferred)
       IN /\ dest_cmds' = Append(dest_cmds, c)
          /\ dest' = RcloneAll(dest, <<c>>)
    /\ dest_pc' = "finalize"
    /\ UNCHANGED <<config_name, dry_run, last_snapshot, timestamp, task_last_log, reported,
                   finalized, returned, transferred, nsync>>

\* finalize(): every call of rclone() may raise; after the last, perform()
\* and backup() return
DestFinalize ==
    /\ dest_pc = "finalize"
    /\ \E size \in DirSizes :
        LET L == FinalizeCalls(task_last_log, timestamp,
                               IF dry_run THEN 0 ELSE size)
        IN \E k \in 0..Len(L) :
            IF k = 0
            THEN /\ dest_cmds' = dest_cmds \o L
                 /\ dest' = RcloneAll(dest, L)
                 /\ dest_pc' = "idle"
                 /\ returned' = "True"
                 /\ finalized' = IF dry_run THEN finalized
                                 ELSE finalized \cup {timestamp}
            ELSE /\ dest_cmds' = dest_cmds \o SubSeq(L, 1, k)
                 /\ dest' = RcloneAll(dest, SubSeq(L, 1, k - 1))
                 /\ dest_pc' = "dead"
                 /\ returned' = "raised"
                 /\ finalized' = finalized
    /\ UNCHANGED <<config_name, dry_run, last_snapshot, timestamp, task_last_log, reported,
                   transferred, nsync>>

NextDest ==
    \/ DestNewSnapshot /\ UNCHANGED <<treeVars, taskVars, rclVars, schVars,
                                      runRest, gateVars, logVars>>
    \/ DestBackup /\ UNCHANGED <<treeVars, taskVars, rclVars, schVars,
                                 runRest, gateVars, logVars>>
    \/ DestNothingToSync /\ UNCHANGED <<treeVars, taskVars, rclVars, schVars,
                                        runRest, gateVars, logVars>>
    \/ DestRaises /\ UNCHANGED <<treeVars, taskVars, rclVars, schVars,
                                 runRest, gateVars, logVars>>
    \/ DestStartSync /\ UNCHANGED <<treeVars, taskVars, rclVars, schVars,
                                    runRest, gateVars, logVars>>
    \/ DestSyncItem /\ UNCHANGED <<treeVars, taskVars, rclVars, schVars,
                                   runRest, gateVars, logVars>>
    \/ DestSyncEnd /\ UNCHANGED <<treeVars, taskVars, rclVars, schVars,
                                  runRest, gateVars, logVars>>
    \/ DestFinalize /\ UNCHANGED <<treeVars, taskVars, rclVars, schVars,
                                   runRest, gateVars, logVars>>

InitOfDest ==
    /\ InitTree /\ InitTask /\ InitRclone /\ InitSchedule /\ InitRun
    /\ InitGate /\ InitLog
    /\ threshold = 0 /\ last_log = FALSE
    /\ \E i \in Intervals : sch_interval = [b \in Backups |-> i]
    /\ config_name \in Names
    /\ dry_run \in BOOLEAN
    /\ last_snapshot = 1
    /\ dest = {}
    /\ dest_pc = "idle"
    /\ timestamp = 0
    /\ task_last_log = 0
    /\ dest_cmds = << >>
    /\ reported = NotReported
    /\ finalized = {}
    /\ returned = "none"

SpecDest == InitOfDest /\ [][NextDest]_vars

\* finalize() runs to its end in this step
Finalizes == dest_pc = "finalize" /\ dest_pc' = "idle"

\* the calls of rclone() of this step
NewCalls == SubSeq(dest_cmds', Len(dest_cmds) + 1, Len(dest_cmds'))

SizeMarkers(d, dir) == { f \in d : f.dir = dir /\ f.label = "size" }

(***************************************************************************)
(* C33: with a prior sync log, finalize first moves the files of the prior *)
(* run from the root of the destination into the directory named by the    *)
(* timestamp of that run, then records one size marker in that directory,  *)
(* then copies the logs of this run to the root; without a prior sync log  *)
(* it only copies the logs of this run.                                    *)
(***************************************************************************)
C33_FinalizeRotatesThenCopies ==
    [][Finalizes =>
        LET prior == task_last_log
            n == Len(NewCalls)
        IN /\ NewCalls[n].cmd = "copy"
           /\ NewCalls[n].dir = DestinationRoot
           /\ NewCalls[n].ts = timestamp
           /\ ~dry_run =>
                 FilePath(config_name, timestamp, "sync.log") \in dest'
           /\ IF prior # 0
              THEN /\ n = 4
                   /\ NewCalls[1].cmd = "move"
                   /\ NewCalls[1].ts = prior /\ NewCalls[1].dir = prior
                   /\ NewCalls[2].cmd = "size" /\ NewCalls[2].dir = prior
                   /\ NewCalls[3].cmd = "touch" /\ NewCalls[3].label = "size"
                   /\ NewCalls[3].dir = prior /\ NewCalls[3].ts = prior
                   /\ ~dry_run =>
                        /\ \A f \in dest : f.dir = DestinationRoot /\ f.ts = prior
                               => /\ f \notin dest'
                                  /\ [f EXCEPT !.dir = prior] \in dest'
                        /\ Cardinality(SizeMarkers(dest', prior)) = 1
              ELSE /\ n = 1
                   /\ dest \subseteq dest'
                   /\ \A f \in dest' \ dest :
                          \E l \in LocalLogs :
                              f = FilePath(config_name, timestamp, l)]_vars

\* a second backup has finalized: the log and the marker of the first are
\* in the directory of the first
C33_Witness ==
    /\ dest_pc = "idle" /\ returned = "True" /\ ~dry_run
    /\ task_last_log # 0
    /\ Len(dest_cmds) = 5
    /\ \E f \in dest : f.dir = task_last_log /\ f.label = "transferred"
    /\ \E f \in dest : f.dir = task_last_log /\ f.label = "sync.log"
    /\ SyncLogs(dest) = {DestFile(DestinationRoot, timestamp, "sync.log", 0)}

\* the sync phase completes in this step
SyncCompletes == dest_pc = "sync" /\ dest_pc' = "finalize"

\* the positions of the calls that touch a transferred marker
MarkerCalls(cs) ==
    { i \in DOMAIN cs : cs[i].cmd = "touch" /\ cs[i].label = "transferred" }

(***************************************************************************)
(* C34: at the end of a sync phase one transferred marker is touched in    *)
(* the root, named with the timestamp of this run and the last cumulative  *)
(* value given to update_progress (0 when there was none); it is the only  *)
(* one of the run and comes before the calls of finalize.                  *)
(***************************************************************************)
C34_OneTransferredMarkerPerSync ==
    /\ [][SyncCompletes =>
            LET bytes == IF reported = NotReported THEN 0 ELSE reported
            IN /\ NewCalls = << Rclone("touch", DestinationRoot, timestamp,
                                       "transferred", bytes) >>
               /\ ~dry_run =>
                    /\ DestFile(DestinationRoot, timestamp, "transferred", bytes)
                           \in dest'
                    /\ \A f \in dest' \ dest : f.bytes = bytes]_vars
    /\ [](dest_pc = "finalize" => MarkerCalls(dest_cmds) = {Len(dest_cmds)})
    /\ []((dest_pc = "idle" /\ dest_cmds # << >>) => MarkerCalls(dest_cmds) = {1})
    /\ [][(dest_pc \in {"task", "sync"} /\ dest_pc' # "finalize")
              => (dest_cmds' = dest_cmds)]_vars

\* an item was reported in the second run and the marker of that run
\* carries its bytes
C34_Witness ==
    /\ dest_pc = "finalize" /\ ~dry_run
    /\ nsync > 0 /\ reported > 0
    /\ DestFile(DestinationRoot, timestamp, "transferred", reported) \in dest
    /\ timestamp > 1

\* the files and links among the entries listed for the sync
SyncedLeaves == { p \in files : ~IsDir(tree, p) }

C35_FailedSyncIsStartedAgain ==
    [][(task_pc = "sync" /\ sync_rc' # 0)
          => /\ task_pc' = "sync"
             /\ cmds' = Issue("sync")]_vars

\* the timestamp of the latest run that finalized
LatestFinalized == CHOOSE t \in finalized : \A u \in finalized : u <= t

\* backup() creates a task in this step
CreatesTask == dest_pc = "idle" /\ dest_pc' = "task"

(***************************************************************************)
(* C37: once a task that is no dry run has finalized the backup of a       *)
(* snapshot, no call of backup(), forced or not, creates a task while that *)
(* snapshot is the last one.                                               *)
(***************************************************************************)
C37_SnapshotIsBackedUpOnce ==
    [][CreatesTask => last_snapshot \notin finalized]_vars

(***************************************************************************)
(* C38: the root of the destination never holds more than one sync log of  *)
(* the backup, and get_last_log never exits with 'There should only be a   *)
(* single sync log file'; a sync log in the root is that of the latest run *)
(* that finalized.                                                         *)
(***************************************************************************)
C38_AtMostOneSyncLogInTheRoot ==
    /\ Cardinality(SyncLogs(dest)) <= 1
    /\ returned # "SystemExit"
    /\ \A f \in SyncLogs(dest) : finalized # {} /\ f.ts = LatestFinalized

\* a task has been created after two runs were finalized and one sync log
\* is in the root
C38_Witness ==
    /\ Cardinality(finalized) >= 2
    /\ dest_pc = "task"
    /\ timestamp \notin finalized
    /\ Cardinality(SyncLogs(dest)) = 1
    /\ \E f \in dest : f.label = "sync.log" /\ f.dir # DestinationRoot

\* perform() returns in this step
PerformReturns == dest_pc \in {"task", "sync", "finalize"} /\ dest_pc' = "idle"

\* a call of backup() ends in this step without a task
NoTask == dest_pc = "idle" /\ dest_pc' = "idle" /\ last_snapshot' = last_snapshot

(***************************************************************************)
(* C39: backup() returns True exactly when it created a task and perform() *)
(* returned, with or without a transfer (the operator skipped, the size    *)
(* was 0); it returns False exactly when the call ended without a task     *)
(* (started by hand only, volume not mounted, already backed up, too       *)
(* recent, Time Machine backup in progress).                               *)
(***************************************************************************)
C39_TrueIffPerformReturned ==
    [][/\ PerformReturns => returned' = "True"
       /\ (returned' = "True" /\ returned # "True") => PerformReturns
       /\ NoTask => returned' = "False"
       /\ (returned' = "False" /\ returned # "False") => NoTask
       /\ dest_pc' = "dead" => returned' \in {"raised", "SystemExit"}]_vars

\* a task was created, nothing was transferred and backup() returned True
C39_Witness ==
    /\ returned = "True"
    /\ dest_pc = "idle"
    /\ timestamp = last_snapshot
    /\ dest_cmds = << >>

====
